---------------------------- MODULE Spec2Model ----------------------------
(***************************************************************************)
(* A model of snexpr.h: the tokenizer (expr_next_token), the shunting-yard *)
(* parser (expr_create), the tree-walking evaluator (expr_eval) and the    *)
(* teardown (expr_result_free, expr_destroy), with the heap blocks they    *)
(* allocate and release.                                                   *)
(*                                                                         *)
(* Text is a sequence of one-character strings.  A float is modelled as an *)
(* exact rational [n, d] (d > 0), with d = 0 for the IEEE specials: n = 0  *)
(* is NaN, n = 1 is +Inf, n = -1 is -Inf; binary rounding of f32 is not    *)
(* modelled.  A value the rationals cannot hold (an irrational power) is   *)
(* Unrep and propagates.                                                   *)
(***************************************************************************)
EXTENDS Integers, Sequences, FiniteSets, TLC

(***************************************************************************)
(* Characters                                                              *)
(***************************************************************************)
NUL == "NUL"
TAB == "\t"
NL == "\n"
\* The grave accent (byte 96), which a TLA+ string cannot hold.
BQ == "GRAVE"

Printable ==
    << " ", "!", "\"", "#", "$", "%", "&", "'", "(", ")", "*", "+", ",", "-", ".", "/",
       "0", "1", "2", "3", "4", "5", "6", "7", "8", "9", ":", ";", "<", "=", ">", "?",
       "@", "A", "B", "C", "D", "E", "F", "G", "H", "I", "J", "K", "L", "M", "N", "O",
       "P", "Q", "R", "S", "T", "U", "V", "W", "X", "Y", "Z", "[", "\\", "]", "^", "_",
       BQ, "a", "b", "c", "d", "e", "f", "g", "h", "i", "j", "k", "l", "m", "n", "o",
       "p", "q", "r", "s", "t", "u", "v", "w", "x", "y", "z", "{", "|", "}", "~" >>

Chars == {Printable[i] : i \in 1..Len(Printable)} \cup {NUL, TAB, NL}

\* The byte value of a character (ASCII).
OrdTab ==
    [c \in Chars |->
        IF c = NUL THEN 0
        ELSE IF c = TAB THEN 9
        ELSE IF c = NL THEN 10
        ELSE 31 + (CHOOSE i \in 1..Len(Printable) : Printable[i] = c)]

Ord(c) == OrdTab[c]

Digits == <<"0", "1", "2", "3", "4", "5", "6", "7", "8", "9">>

isdigit(c) == Ord(c) \in 48..57

DigitVal(c) == Ord(c) - 48

isspace(c) == c \in {" ", TAB, NL}

isfirstvarchr(c) == (Ord(c) >= 64 /\ c # "^" /\ c # "|") \/ c = "$"

isvarchr(c) == isfirstvarchr(c) \/ c = "#" \/ isdigit(c)

(***************************************************************************)
(* Numbers                                                                 *)
(***************************************************************************)
Abs(x) == IF x < 0 THEN -x ELSE x

RECURSIVE Gcd(_, _)
Gcd(a, b) == IF b = 0 THEN a ELSE Gcd(b, a % b)

RECURSIVE Pow10(_)
Pow10(k) == IF k = 0 THEN 1 ELSE 10 * Pow10(k - 1)

RECURSIVE IntPow(_, _)
IntPow(b, k) == IF k = 0 THEN 1 ELSE b * IntPow(b, k - 1)

Rat(n, d) ==
    LET g == Gcd(Abs(n), d)
    IN  [n |-> n \div g, d |-> d \div g]

Num(i) == [n |-> i, d |-> 1]

NaN == [n |-> 0, d |-> 0]
PInf == [n |-> 1, d |-> 0]
NInf == [n |-> -1, d |-> 0]
Unrep == [n |-> 0, d |-> -1]

isnan(x) == x = NaN
isinf(x) == IF x = PInf THEN 1 ELSE IF x = NInf THEN -1 ELSE 0
IsFinite(x) == x.d > 0
IsZero(x) == x.d > 0 /\ x.n = 0
Sign(x) == IF x.n > 0 THEN 1 ELSE IF x.n < 0 THEN -1 ELSE 0

FNeg(x) == IF x.d <= 0 THEN [x EXCEPT !.n = -x.n] ELSE Rat(-x.n, x.d)

FAdd(a, b) ==
    IF a = Unrep \/ b = Unrep THEN Unrep
    ELSE IF isnan(a) \/ isnan(b) THEN NaN
    ELSE IF isinf(a) # 0 THEN (IF isinf(b) = -isinf(a) THEN NaN ELSE a)
    ELSE IF isinf(b) # 0 THEN b
    ELSE Rat(a.n * b.d + b.n * a.d, a.d * b.d)

FSub(a, b) == FAdd(a, FNeg(b))

FMul(a, b) ==
    IF a = Unrep \/ b = Unrep THEN Unrep
    ELSE IF isnan(a) \/ isnan(b) THEN NaN
    ELSE IF isinf(a) # 0 \/ isinf(b) # 0
         THEN (IF Sign(a) * Sign(b) = 0 THEN NaN
               ELSE IF Sign(a) * Sign(b) > 0 THEN PInf ELSE NInf)
    ELSE Rat(a.n * b.n, a.d * b.d)

\* a / b for b # 0 (expr_eval rejects a zero divisor before dividing).
FDiv(a, b) ==
    IF a = Unrep \/ b = Unrep THEN Unrep
    ELSE IF isnan(a) \/ isnan(b) THEN NaN
    ELSE IF isinf(b) # 0 THEN (IF isinf(a) # 0 THEN NaN ELSE Num(0))
    ELSE IF isinf(a) # 0 THEN (IF Sign(a) * Sign(b) > 0 THEN PInf ELSE NInf)
    ELSE IF b.n > 0 THEN Rat(a.n * b.d, a.d * b.n)
    ELSE Rat(-(a.n * b.d), a.d * (-b.n))

\* Truncation toward zero of a finite rational.
Trunc(x) == IF x.n >= 0 THEN x.n \div x.d ELSE -((-x.n) \div x.d)

\* fmodf
FMod(a, b) ==
    IF a = Unrep \/ b = Unrep THEN Unrep
    ELSE IF isnan(a) \/ isnan(b) \/ isinf(a) # 0 \/ IsZero(b) THEN NaN
    ELSE IF isinf(b) # 0 THEN a
    ELSE FSub(a, FMul(Num(Trunc(FDiv(a, b))), b))

\* powf; an exponent that is not an integer has no rational value in general.
FPow(a, b) ==
    IF a = Unrep \/ b = Unrep THEN Unrep
    ELSE IF IsZero(b) \/ a = Num(1) THEN Num(1)
    ELSE IF isnan(a) \/ isnan(b) THEN NaN
    ELSE IF b.d = 1 /\ a.d > 0
         THEN (IF b.n > 0 THEN Rat(IntPow(a.n, b.n), IntPow(a.d, b.n))
               ELSE IF a.n = 0 THEN PInf
               ELSE IF a.n > 0 THEN Rat(IntPow(a.d, -b.n), IntPow(a.n, -b.n))
               ELSE Rat(IntPow(-a.d, -b.n), IntPow(-a.n, -b.n)))
    ELSE IF a.d > 0 /\ a.n < 0 /\ b.d > 1 THEN NaN
    ELSE Unrep

\* The C comparisons on floats: every comparison with NaN is false but !=.
FLt(a, b) ==
    IF isnan(a) \/ isnan(b) THEN FALSE
    ELSE IF isinf(a) # 0 \/ isinf(b) # 0
         THEN (IF a = b THEN FALSE ELSE a = NInf \/ b = PInf)
    ELSE a.n * b.d < b.n * a.d

FEq(a, b) == ~isnan(a) /\ ~isnan(b) /\ a = b

INT_MAX == 2147483647

to_int(x) ==
    IF isnan(x) THEN 0
    ELSE IF isinf(x) # 0 THEN INT_MAX * isinf(x)
    ELSE Trunc(x)

(***************************************************************************)
(* Strings and conversions                                                 *)
(***************************************************************************)
RECURSIVE DigitsOf(_)
DigitsOf(k) ==
    IF k < 10 THEN <<Digits[k + 1]>>
    ELSE Append(DigitsOf(k \div 10), Digits[(k % 10) + 1])

RECURSIVE PadLeft(_, _)
PadLeft(ds, w) == IF Len(ds) >= w THEN ds ELSE PadLeft(<<"0">> \o ds, w)

RECURSIVE StripZeros(_)
StripZeros(ds) ==
    IF ds # <<>> /\ ds[Len(ds)] = "0" THEN StripZeros(SubSeq(ds, 1, Len(ds) - 1))
    ELSE ds

\* scaled / 10^decimals written with its trailing zeros removed, as "%g" does.
FixedStr(scaled, decimals) ==
    LET Join(ip, fp) == IF fp = <<>> THEN ip ELSE ip \o <<".">> \o fp
        Split(ds) == Join(SubSeq(ds, 1, Len(ds) - decimals),
                          StripZeros(SubSeq(ds, Len(ds) - decimals + 1, Len(ds))))
    IN  Split(PadLeft(DigitsOf(scaled), decimals + 1))

\* p / q rounded to the nearest integer.
RoundDiv(p, q) == (2 * p + q) \div (2 * q)

\* The least k >= 1 with a * 10^k >= d, for 0 < a < d.
RECURSIVE LeadShift(_, _, _)
LeadShift(a, d, k) == IF a * Pow10(k) >= d THEN k ELSE LeadShift(a, d, k + 1)

\* The precision of "%g".
GPrecision == 6

\* printf("%g") of a float, as expr_convert_num formats it.
FmtG(x) ==
    IF x = NaN THEN <<"n", "a", "n">>
    ELSE IF x = PInf THEN <<"i", "n", "f">>
    ELSE IF x = NInf THEN <<"-", "i", "n", "f">>
    ELSE IF x.n = 0 THEN <<"0">>
    ELSE
      LET P == GPrecision
          sign == IF x.n < 0 THEN <<"-">> ELSE <<>>
          \* The P digits scaled with the decimal exponent X, in the style "%g" picks.
          Style(scaled, X) ==
              IF X < -4 \/ X >= P
              THEN sign \o FixedStr(scaled, P - 1) \o <<"e">>
                   \o (IF X < 0 THEN <<"-">> ELSE <<"+">>) \o PadLeft(DigitsOf(Abs(X)), 2)
              ELSE sign \o FixedStr(scaled, P - 1 - X)
          \* Rounding to P digits may carry into one digit more.
          Carry(s0, X0) == IF s0 >= Pow10(P) THEN Style(Pow10(P - 1), X0 + 1) ELSE Style(s0, X0)
          \* a / d rounded to P significant digits, X0 being its decimal exponent.
          Round(a, d, X0) ==
              Carry(IF P - 1 - X0 >= 0 THEN RoundDiv(a * Pow10(P - 1 - X0), d)
                    ELSE RoundDiv(a, d * Pow10(X0 - (P - 1))), X0)
          Exponent(a, d) ==
              Round(a, d, IF a >= d THEN Len(DigitsOf(a \div d)) - 1 ELSE -LeadShift(a, d, 1))
      IN  Exponent(Abs(x.n), x.d)

\* The digits of s from position i on: [v: their value, k: how many].
RECURSIVE ScanDigits(_, _, _, _)
ScanDigits(s, i, v, k) ==
    IF i <= Len(s) /\ isdigit(s[i]) THEN ScanDigits(s, i + 1, v * 10 + DigitVal(s[i]), k + 1)
    ELSE [v |-> v, k |-> k]

RECURSIVE SkipSpace(_, _)
SkipSpace(s, i) == IF i <= Len(s) /\ isspace(s[i]) THEN SkipSpace(s, i + 1) ELSE i

Lower(c) == IF Ord(c) \in 65..90 THEN Printable[Ord(c) + 32 - 31] ELSE c

\* atof: leading white space, a sign, decimal digits with an optional point and an
\* optional exponent; 0 when no number starts the string.  The "inf", "nan" and
\* hexadecimal forms are not modelled (Unrep).
atof(s) ==
    LET none == [v |-> 0, k |-> 0]
        \* The value of the digits ip.fp with the exponent digits ep.
        Value(val, neg) == IF neg THEN FNeg(val) ELSE val
        Scaled(neg, ip, fp, ep, eneg) ==
            IF ip.k + fp.k = 0 THEN Num(0)
            ELSE Value(FMul(Rat(ip.v * Pow10(fp.k) + fp.v, Pow10(fp.k)),
                            IF ep.k = 0 THEN Num(1)
                            ELSE IF eneg THEN Rat(1, Pow10(ep.v))
                            ELSE Num(Pow10(ep.v))),
                       neg)
        \* The exponent, from position i3 (after the mantissa) on.
        Exponent(neg, ip, fp, i3) ==
            LET esign == i3 + 1 <= Len(s) /\ s[i3 + 1] \in {"-", "+"}
            IN  Scaled(neg, ip, fp,
                       IF ip.k + fp.k > 0 /\ i3 <= Len(s) /\ Lower(s[i3]) = "e"
                       THEN ScanDigits(s, IF esign THEN i3 + 2 ELSE i3 + 1, 0, 0) ELSE none,
                       esign /\ s[i3 + 1] = "-")
        \* The fraction, from position i2 (after the integer digits) on.
        Fraction(neg, ip, i2, fp) ==
            Exponent(neg, ip, fp, IF i2 <= Len(s) /\ s[i2] = "." THEN i2 + 1 + fp.k ELSE i2)
        Integer(neg, i1, ip) ==
            Fraction(neg, ip, i1 + ip.k,
                     IF i1 + ip.k <= Len(s) /\ s[i1 + ip.k] = "."
                     THEN ScanDigits(s, i1 + ip.k + 1, 0, 0) ELSE none)
        \* The sign, from position i0 (after the white space) on.
        Sign0(i0) ==
            LET i1 == IF i0 <= Len(s) /\ s[i0] \in {"-", "+"} THEN i0 + 1 ELSE i0
                special == \/ (i1 + 2 <= Len(s)
                               /\ <<Lower(s[i1]), Lower(s[i1 + 1]), Lower(s[i1 + 2])>>
                                    \in {<<"i", "n", "f">>, <<"n", "a", "n">>})
                           \/ (i1 + 1 <= Len(s) /\ s[i1] = "0" /\ Lower(s[i1 + 1]) = "x")
            IN  IF special THEN Unrep
                ELSE Integer(i0 <= Len(s) /\ s[i0] = "-", i1, ScanDigits(s, i1, 0, 0))
    IN  Sign0(SkipSpace(s, 1))

\* strcmp: negative, zero or positive, comparing bytes as unsigned.
RECURSIVE strcmp(_, _)
strcmp(a, b) ==
    IF a = <<>> /\ b = <<>> THEN 0
    ELSE IF a = <<>> THEN -1
    ELSE IF b = <<>> THEN 1
    ELSE IF a[1] # b[1] THEN Ord(a[1]) - Ord(b[1])
    ELSE strcmp(Tail(a), Tail(b))

RECURSIVE ParseNumberLoop(_, _, _, _, _)
ParseNumberLoop(s, i, num, frac, digits) ==
    IF i > Len(s)
    THEN (IF digits > 0 THEN Rat(num, Pow10(IF frac > 1 THEN frac - 1 ELSE 0)) ELSE NaN)
    ELSE IF s[i] = "." /\ frac = 0 THEN ParseNumberLoop(s, i + 1, num, 1, digits)
    ELSE IF isdigit(s[i])
         THEN ParseNumberLoop(s, i + 1, num * 10 + DigitVal(s[i]),
                              IF frac > 0 THEN frac + 1 ELSE frac, digits + 1)
    ELSE NaN

\* expr_parse_number on the len bytes s.
expr_parse_number(s) == ParseNumberLoop(s, 1, 0, 0, 0)

(***************************************************************************)
(* Operator table                                                          *)
(***************************************************************************)
\* enum expr_type, in declaration order (SNE_OP_ prefix dropped).
expr_type ==
    << "UNKNOWN", "UNARY_MINUS", "UNARY_LOGICAL_NOT", "UNARY_BITWISE_NOT",
       "POWER", "DIVIDE", "MULTIPLY", "REMAINDER", "PLUS", "MINUS", "SHL", "SHR",
       "LT", "LE", "GT", "GE", "EQ", "NE", "BITWISE_AND", "BITWISE_OR", "BITWISE_XOR",
       "LOGICAL_AND", "LOGICAL_OR", "ASSIGN", "COMMA",
       "CONSTNUM", "CONSTSTZ", "VAR", "FUNC" >>

EnumVal(t) == (CHOOSE i \in 1..Len(expr_type) : expr_type[i] = t) - 1

precTab ==
    << 0, 1, 1, 1, 2, 2, 2, 2, 3, 3, 4, 4, 5, 5, 5, 5, 5, 5, 6, 7,
       8, 9, 10, 11, 12, 0, 0, 0, 0 >>

prec(t) == precTab[EnumVal(t) + 1]

expr_is_unary(op) == op \in {"UNARY_MINUS", "UNARY_LOGICAL_NOT", "UNARY_BITWISE_NOT"}

expr_is_binary(op) == ~expr_is_unary(op) /\ op \notin {"CONSTNUM", "VAR", "FUNC", "UNKNOWN"}

\* A plausible slip in expr_prec: no operator is exempt from left association.
expr_prec_allleft(a, b) == (expr_is_binary(a) /\ prec(a) >= prec(b)) \/ prec(a) > prec(b)

\* A plausible slip in expr_prec: the precedence comparison is turned around.
expr_prec_reversed(a, b) ==
    LET left == expr_is_binary(a) /\ a \notin {"ASSIGN", "POWER", "COMMA"}
    IN  (left /\ prec(a) <= prec(b)) \/ prec(a) < prec(b)

\* A plausible slip in expr_prec: unary operators associate to the left too.
expr_prec_unaryleft(a, b) ==
    LET left == a \notin {"ASSIGN", "POWER", "COMMA"}
    IN  (left /\ prec(a) >= prec(b)) \/ prec(a) > prec(b)

\* Whether the operator b on the stack is bound before the new operator a is pushed.
expr_prec(a, b) ==
    LET left == expr_is_binary(a) /\ a \notin {"ASSIGN", "POWER", "COMMA"}
    IN  (left /\ prec(a) >= prec(b)) \/ prec(a) > prec(b)

OPS ==
    << [s |-> <<"-", "u">>, op |-> "UNARY_MINUS"],
       [s |-> <<"!", "u">>, op |-> "UNARY_LOGICAL_NOT"],
       [s |-> <<"^", "u">>, op |-> "UNARY_BITWISE_NOT"],
       [s |-> <<"*", "*">>, op |-> "POWER"],
       [s |-> <<"*">>, op |-> "MULTIPLY"],
       [s |-> <<"/">>, op |-> "DIVIDE"],
       [s |-> <<"%">>, op |-> "REMAINDER"],
       [s |-> <<"+">>, op |-> "PLUS"],
       [s |-> <<"-">>, op |-> "MINUS"],
       [s |-> <<"<", "<">>, op |-> "SHL"],
       [s |-> <<">", ">">>, op |-> "SHR"],
       [s |-> <<"<">>, op |-> "LT"],
       [s |-> <<"<", "=">>, op |-> "LE"],
       [s |-> <<">">>, op |-> "GT"],
       [s |-> <<">", "=">>, op |-> "GE"],
       [s |-> <<"=", "=">>, op |-> "EQ"],
       [s |-> <<"!", "=">>, op |-> "NE"],
       [s |-> <<"&">>, op |-> "BITWISE_AND"],
       [s |-> <<"|">>, op |-> "BITWISE_OR"],
       [s |-> <<"^">>, op |-> "BITWISE_XOR"],
       [s |-> <<"&", "&">>, op |-> "LOGICAL_AND"],
       [s |-> <<"|", "|">>, op |-> "LOGICAL_OR"],
       [s |-> <<"=">>, op |-> "ASSIGN"],
       [s |-> <<",">>, op |-> "COMMA"],
       [s |-> <<"-">>, op |-> "UNARY_MINUS"],
       [s |-> <<"!">>, op |-> "UNARY_LOGICAL_NOT"],
       [s |-> <<"^">>, op |-> "UNARY_BITWISE_NOT"] >>

\* expr_op(s, len, unary): the first entry of OPS spelt s whose arity fits
\* (unary = -1: any; 1: unary; 0: not unary).
expr_op(s, unary) ==
    LET fits(i) == /\ OPS[i].s = s
                   /\ (unary = -1 \/ (expr_is_unary(OPS[i].op) <=> (unary = 1)))
        First(hits) == IF hits = {} THEN "UNKNOWN"
                       ELSE OPS[CHOOSE i \in hits : \A j \in hits : i <= j].op
    IN  First({i \in 1..Len(OPS) : fits(i)})

(***************************************************************************)
(* Tokenizer                                                               *)
(***************************************************************************)
\* EXPR_TDEFAULT
EXPR_TDEFAULT == {"TOPEN", "TNUMBER", "TSTRING", "TWORD"}

\* s[i] for 0 <= i <= len; the caller's text ends with a NUL byte (strlen(s) = len).
CharAt(s, i) == IF i < Len(s) THEN s[i + 1] ELSE NUL

RECURSIVE ScanComment(_, _)
ScanComment(s, i) == IF i < Len(s) /\ s[i + 1] # NL THEN ScanComment(s, i + 1) ELSE i

RECURSIVE ScanSpace(_, _)
ScanSpace(s, i) == IF i < Len(s) /\ isspace(s[i + 1]) THEN ScanSpace(s, i + 1) ELSE i

RECURSIVE ScanBlank(_, _)
ScanBlank(s, i) ==
    IF i < Len(s) /\ isspace(s[i + 1]) /\ s[i + 1] # NL THEN ScanBlank(s, i + 1) ELSE i

RECURSIVE ScanNumber(_, _)
ScanNumber(s, i) ==
    IF (CharAt(s, i) = "." \/ isdigit(CharAt(s, i))) /\ i < Len(s) THEN ScanNumber(s, i + 1)
    ELSE i

RECURSIVE ScanString(_, _, _)
ScanString(s, i, b) ==
    IF CharAt(s, i) # b /\ i < Len(s) THEN ScanString(s, i + 1, b) ELSE i

RECURSIVE ScanWord(_, _)
ScanWord(s, i) == IF isvarchr(CharAt(s, i)) /\ i < Len(s) THEN ScanWord(s, i + 1) ELSE i

RECURSIVE ScanOp(_, _, _)
ScanOp(s, i, found) ==
    LET c == CharAt(s, i)
    IN  IF ~(~isvarchr(c) /\ ~isspace(c) /\ c # "(" /\ c # ")" /\ i < Len(s))
        THEN [i |-> i, found |-> found]
        ELSE IF expr_op(SubSeq(s, 1, i + 1), 0) # "UNKNOWN" THEN ScanOp(s, i + 1, TRUE)
        ELSE IF found THEN [i |-> i, found |-> TRUE]
        ELSE ScanOp(s, i + 1, FALSE)

\* expr_next_token(s, len, &flags): [n: the return value, flags: *flags afterwards].
expr_next_token(s, flags) ==
    LET len == Len(s)
        c == CharAt(s, 0)
        Tok(n, fl) == [n |-> n, flags |-> fl]
        \* A newline and the white space after it, up to position i.
        Newline(i) ==
            IF "TOP" \in flags
            THEN (IF i = len \/ CharAt(s, i) = ")"
                  THEN Tok(i, flags \ {"COMMA"})
                  ELSE Tok(i, {"TNUMBER", "TSTRING", "TWORD", "TOPEN", "COMMA"}))
            ELSE Tok(i, flags)
        \* The operator characters scanned as r.
        Operator(r) ==
            IF ~r.found THEN Tok(-5, flags)
            ELSE Tok(r.i, {"TNUMBER", "TSTRING", "TWORD", "TOPEN"})
    IN  IF len = 0 THEN Tok(0, flags)
        ELSE IF c = "#" THEN Tok(ScanComment(s, 0), flags)
        ELSE IF c = NL
        THEN Newline(ScanSpace(s, 0))
        ELSE IF isspace(c) THEN Tok(ScanBlank(s, 0), flags)
        ELSE IF isdigit(c)
        THEN (IF "TNUMBER" \notin flags THEN Tok(-1, flags)
              ELSE Tok(ScanNumber(s, 0), {"TOP", "TCLOSE"}))
        ELSE IF c = "\"" \/ c = "'"
        THEN (IF "TSTRING" \notin flags THEN Tok(-1, flags)
              ELSE IF 0 = len - 1 THEN Tok(-1, flags)
              ELSE Tok(ScanString(s, 1, c) + 1, {"TOP", "TCLOSE"}))
        ELSE IF isfirstvarchr(c)
        THEN (IF "TWORD" \notin flags THEN Tok(-2, flags)
              ELSE Tok(ScanWord(s, 0), {"TOP", "TOPEN", "TCLOSE"}))
        ELSE IF c = "(" \/ c = ")"
        THEN (IF c = "(" /\ "TOPEN" \in flags
              THEN Tok(1, {"TNUMBER", "TSTRING", "TWORD", "TOPEN", "TCLOSE"})
              ELSE IF c = ")" /\ "TCLOSE" \in flags THEN Tok(1, {"TOP", "TCLOSE"})
              ELSE Tok(-3, flags))
        ELSE IF "TOP" \notin flags
        THEN (IF expr_op(<<c>>, 1) = "UNKNOWN" THEN Tok(-4, flags)
              ELSE Tok(1, {"TNUMBER", "TSTRING", "TWORD", "TOPEN", "UNARY"}))
        ELSE Operator(ScanOp(s, 0, FALSE))

(***************************************************************************)
(* Heap blocks.  Every malloc/calloc/realloc-from-NULL hands out a fresh    *)
(* block id (never 0, the null pointer); allocation is taken to succeed.    *)
(* tr is the log of the free and cleanup calls made so far, in order.       *)
(***************************************************************************)
EmptyHeap == [live |-> {}, next |-> 1, nalloc |-> 0, nfree |-> 0, bad |-> FALSE, tr |-> <<>>]

\* malloc: the new block is h.next.
HAlloc(h) ==
    [h EXCEPT !.live = @ \cup {h.next}, !.next = @ + 1, !.nalloc = @ + 1]

\* The calls free(id) and f->cleanup(f, id) as entries of the log; free(NULL)
\* does nothing and is not logged.
FreeOf(id) == IF id = 0 THEN <<>> ELSE <<[k |-> "free", f |-> 0, id |-> id]>>

CleanupOf(f, id) == <<[k |-> "cleanup", f |-> f, id |-> id]>>

\* The heap after the calls evs were made in that order: a free of a block that
\* is not live (never allocated, or freed before) is recorded in bad.
HRun(h, evs) ==
    [h EXCEPT !.live = @ \ {evs[i].id : i \in {j \in DOMAIN evs : evs[j].k = "free"}},
              !.nfree = @ + Cardinality({i \in DOMAIN evs : evs[i].k = "free"}),
              !.bad = @ \/ \E i \in DOMAIN evs :
                              /\ evs[i].k = "free"
                              /\ \/ evs[i].id \notin h.live
                                 \/ \E j \in 1..(i - 1) :
                                        evs[j].k = "free" /\ evs[j].id = evs[i].id,
              !.tr = @ \o evs]

\* free(id)
HFree(h, id) == HRun(h, FreeOf(id))

\* vec_init
vec_init == [buf |-> 0, items |-> <<>>]

vec_len(v) == Len(v.items)

\* vec_push: vec_expand allocates the buffer on the first push and grows it in place.
vec_push(v, val, h) ==
    [v |-> [buf |-> IF v.buf = 0 THEN h.next ELSE v.buf, items |-> Append(v.items, val)],
     h |-> IF v.buf = 0 THEN HAlloc(h) ELSE h]

vec_peek(v) == v.items[Len(v.items)]

\* vec_pop: the vector without its last element (vec_peek gives the element).
vec_pop(v) == [v EXCEPT !.items = SubSeq(@, 1, Len(@) - 1)]

\* vec_free: the heap after free(v->buf).
vec_free(v, h) == HFree(h, v.buf)

(***************************************************************************)
(* Expression nodes (struct expr).  sid is the block of param.stz.sval     *)
(* (0: a null pointer), vref the block of the variable slot, ctx the block *)
(* of param.func.context, f the index of the entry in the registry.        *)
(***************************************************************************)
expr_init ==
    [type |-> "UNKNOWN", nval |-> Num(0), sval |-> <<>>, sid |-> 0, vref |-> 0,
     args |-> vec_init, f |-> 0, ctx |-> 0]

expr_constnum(value) == [expr_init EXCEPT !.type = "CONSTNUM", !.nval = value]

expr_varref(v) == [expr_init EXCEPT !.type = "VAR", !.vref = v]

\* expr_conststr(value, len): the text between the quotes, in a block of its own.
expr_conststr(value, len, h) ==
    LET l == IF len < 2 THEN 0 ELSE len - 2
    IN  [e |-> [expr_init EXCEPT !.type = "CONSTSTZ", !.sid = h.next,
                                 !.sval = SubSeq(value, 2, l + 1)],
         h |-> HAlloc(h)]

\* The node of that type over the operands pushed as p = [v, h].
expr_over(type, p) == [e |-> [expr_init EXCEPT !.type = type, !.args = p.v], h |-> p.h]

\* vec_push onto the vector and heap of p = [v, h].
vec_push_on(p, val) == vec_push(p.v, val, p.h)

expr_binary(type, a, b, h) ==
    expr_over(type, vec_push_on(vec_push(vec_init, a, h), b))

\* expr_bind's unary case: the node over the operand arg.
expr_unary(type, arg, h) == expr_over(type, vec_push(vec_init, arg, h))

(***************************************************************************)
(* Variables: the list of slots, head first; each slot is one block.       *)
(***************************************************************************)
VarIndex(vars, name) ==
    LET hits == {i \in 1..Len(vars) : vars[i].name = name}
    IN  IF hits = {} THEN 0 ELSE CHOOSE i \in hits : \A j \in hits : i <= j

\* A plausible slip in expr_var: the search of the list is left out and every
\* call makes a slot.
expr_var_nolookup(vars, s, h) ==
    IF Len(s) = 0 \/ ~isfirstvarchr(s[1]) THEN [v |-> 0, vars |-> vars, h |-> h]
    ELSE [v |-> h.next,
          vars |-> <<[id |-> h.next, name |-> s, nval |-> Num(0)]>> \o vars,
          h |-> HAlloc(h)]

\* expr_var(vars, s, len): [v: the slot's block (0: NULL), vars, h].
expr_var(vars, s, h) ==
    IF Len(s) = 0 \/ ~isfirstvarchr(s[1]) THEN [v |-> 0, vars |-> vars, h |-> h]
    ELSE IF VarIndex(vars, s) # 0
    THEN [v |-> vars[VarIndex(vars, s)].id, vars |-> vars, h |-> h]
    ELSE [v |-> h.next,
          vars |-> <<[id |-> h.next, name |-> s, nval |-> Num(0)]>> \o vars,
          h |-> HAlloc(h)]

SlotIndex(vars, id) == CHOOSE i \in 1..Len(vars) : vars[i].id = id

VarValue(vars, id) == vars[SlotIndex(vars, id)].nval

VarName(vars, id) == vars[SlotIndex(vars, id)].name

SetVar(vars, id, val) == [vars EXCEPT ![SlotIndex(vars, id)].nval = val]

(***************************************************************************)
(* Function registry: [null, tab]; null is the NULL pointer, tab holds the  *)
(* entries before the terminating one.                                      *)
(***************************************************************************)
\* expr_func(funcs, s, len) for a registry that is not null: the index of the
\* first entry named s, 0 (NULL) when there is none.
expr_func(funcs, s) ==
    LET hits == {i \in 1..Len(funcs.tab) : funcs.tab[i].name = s}
    IN  IF hits = {} THEN 0 ELSE CHOOSE i \in hits : \A j \in hits : i <= j

(***************************************************************************)
(* Teardown and copy of subtrees                                           *)
(***************************************************************************)
\* The context of call node e: f->cleanup(f, context) when there is one, then free.
FreeContext(e, funcs) ==
    IF e.ctx = 0 THEN <<>>
    ELSE IF funcs.tab[e.f].cleanup THEN CleanupOf(e.f, e.ctx) \o FreeOf(e.ctx)
    ELSE FreeOf(e.ctx)

RECURSIVE Released(_, _)
RECURSIVE ReleasedEach(_, _)

\* vec_foreach(v, e, i) expr_destroy_args(&e): the calls made, in order.
ReleasedEach(items, funcs) ==
    IF items = <<>> THEN <<>>
    ELSE Released(Head(items), funcs) \o ReleasedEach(Tail(items), funcs)

\* The free and cleanup calls expr_destroy_args(e) makes, in order.  A string
\* node's buffer shares the union with op.args.buf (its len is 0), so vec_free
\* releases the string.
Released(e, funcs) ==
    CASE e.type = "FUNC" ->
             ReleasedEach(e.args.items, funcs) \o FreeOf(e.args.buf) \o FreeContext(e, funcs)
      [] e.type = "CONSTSTZ" -> FreeOf(e.sid)
      [] e.type \in {"CONSTNUM", "VAR"} -> <<>>
      [] OTHER -> ReleasedEach(e.args.items, funcs) \o FreeOf(e.args.buf)

\* expr_destroy_args(e): the heap afterwards.
expr_destroy_args(e, h, funcs) == HRun(h, Released(e, funcs))

\* vec_push of the node built as n = [e, h].
vec_push_el(v, n) == vec_push(v, n.e, n.h)

\* The copy of call node src over the copied arguments a = [v, h]; the context
\* is a fresh zeroed block.
CopyCall(src, a, withctx) ==
    [e |-> [expr_init EXCEPT !.type = "FUNC", !.f = src.f, !.args = a.v,
                             !.ctx = IF withctx THEN a.h.next ELSE 0],
     h |-> IF withctx THEN HAlloc(a.h) ELSE a.h]

RECURSIVE expr_copy(_, _, _)
RECURSIVE CopyEach(_, _, _)

\* vec_foreach(&src->args, arg, i) { expr_copy(&tmp, &arg); vec_push(&dst->args, tmp); }
CopyEach(items, p, funcs) ==
    IF items = <<>> THEN p
    ELSE CopyEach(Tail(items), vec_push_el(p.v, expr_copy(Head(items), p.h, funcs)), funcs)

\* expr_copy(dst, src) into a zeroed dst: [e: dst afterwards, h].  A string node
\* has no branch of its own: it takes the last one, which finds no operands and
\* leaves dst's string pointer null.
expr_copy(src, h, funcs) ==
    IF src.type = "FUNC"
    THEN CopyCall(src, CopyEach(src.args.items, [v |-> vec_init, h |-> h], funcs),
                  funcs.tab[src.f].ctxsz > 0)
    ELSE IF src.type = "CONSTNUM"
    THEN [e |-> [expr_init EXCEPT !.type = "CONSTNUM", !.nval = src.nval], h |-> h]
    ELSE IF src.type = "VAR"
    THEN [e |-> [expr_init EXCEPT !.type = "VAR", !.vref = src.vref], h |-> h]
    ELSE expr_over(src.type, CopyEach(src.args.items, [v |-> vec_init, h |-> h], funcs))

(***************************************************************************)
(* Parser                                                                  *)
(***************************************************************************)
\* expr_bind(s, len, es): [rc, es, h].  A rejected assignment returns after its
\* two operands were popped.
expr_bind(s, es, h) ==
    LET \* vec_push(es, bound) went to p = [v, h].
        Pushed(p) == [rc |-> 0, es |-> p.v, h |-> p.h]
        Bind(op) ==
            IF op = "UNKNOWN" THEN [rc |-> -1, es |-> es, h |-> h]
            ELSE IF expr_is_unary(op)
            THEN (IF vec_len(es) < 1 THEN [rc |-> -1, es |-> es, h |-> h]
                  ELSE Pushed(vec_push_el(vec_pop(es), expr_unary(op, vec_peek(es), h))))
            ELSE IF vec_len(es) < 2 THEN [rc |-> -1, es |-> es, h |-> h]
            ELSE IF op = "ASSIGN" /\ vec_peek(vec_pop(es)).type # "VAR"
            THEN [rc |-> -1, es |-> vec_pop(vec_pop(es)), h |-> h]
            ELSE Pushed(vec_push_el(vec_pop(vec_pop(es)),
                                    expr_binary(op, vec_peek(vec_pop(es)), vec_peek(es), h)))
    IN  Bind(expr_op(s, -1))

\* The parser after expr_bind returned b: -1 leads to cleanup.
Bound(p, b) ==
    [p EXCEPT !.es = b.es, !.h = b.h, !.status = IF b.rc = -1 THEN "cleanup" ELSE @]

Fail(p) == [p EXCEPT !.status = "cleanup"]

Crash(p) == [p EXCEPT !.status = "crash"]

\* vec_push(&es, e) went to r = [v, h].
PushedEs(p, r) == [p EXCEPT !.es = r.v, !.h = r.h]

PushEs(p, e) == PushedEs(p, vec_push(p.es, e, p.h))

\* vec_push(&es, n.e) of the node built as n = [e, h].
PushNode(p, n) == PushedEs(p, vec_push(p.es, n.e, n.h))

\* vec_push(&os, str) went to r = [v, h].
PushedOs(p, r) == [p EXCEPT !.os = r.v, !.h = r.h]

PushOs(p, str) == PushedOs(p, vec_push(p.os, str, p.h))

\* vec_push(&es, expr_varref(expr_var(vars, id, idn))), r being what expr_var gave.
PushVar(p, r) == PushEs([p EXCEPT !.vars = r.vars, !.h = r.h], expr_varref(r.v))

\* paren_next takes effect when the token was accepted.
Paren(p, next) == IF p.status = "run" THEN [p EXCEPT !.paren = next] ELSE p

\* The sizeof(varname) - 1 bytes snprintf may write, the NUL included.
VARNAME_SIZE == 3

\* snprintf(varname, sizeof(varname) - 1, "$%d", j): the output cut to size - 1 bytes.
MacroVarName(j) ==
    LET full == <<"$">> \o DigitsOf(j)
    IN  SubSeq(full, 1, IF Len(full) < VARNAME_SIZE - 1 THEN Len(full) ELSE VARNAME_SIZE - 1)

\* The block "if(idn > 0)": a pending identifier before a "(" is a call name, and a
\* variable before anything else.  expr_func reads funcs->name: with a null
\* registry that is a null dereference.
IdStep(p, tok, funcs, ub) ==
    IF p.id = <<>> THEN p
    ELSE IF tok = <<"(">>
    THEN LET has_macro == \E i \in 1..vec_len(p.macros) : p.macros.items[i].name = p.id
             call == [PushOs(p, p.id) EXCEPT !.paren = "EXPECTED", !.id = <<>>]
         IN  IF p.id = <<"$">> \/ has_macro THEN call
             ELSE IF funcs.null THEN (IF ub.crash THEN Crash(p) ELSE Fail(p))
             ELSE IF expr_func(funcs, p.id) # 0 THEN call
             ELSE Fail(p)
    ELSE [PushVar(p, expr_var(p.vars, p.id, p.h)) EXCEPT !.paren = "FORBIDDEN", !.id = <<>>]

\* while(vec_len(&os) > minlen && *vec_peek(&os).s != '(' && *vec_peek(&os).s != '{')
RECURSIVE PopBind(_, _)
PopBind(p, minlen) ==
    IF p.status = "run" /\ vec_len(p.os) > minlen /\ vec_peek(p.os)[1] \notin {"(", "{"}
    THEN PopBind(Bound([p EXCEPT !.os = vec_pop(@)], expr_bind(vec_peek(p.os), p.es, p.h)),
                 minlen)
    ELSE p

\* "$(name, body...)": the argument list becomes the body of macro name.
MacroDefine(p, args) ==
    IF vec_len(args) < 1 THEN Fail([p EXCEPT !.h = vec_free(args, p.h)])
    ELSE IF args.items[1].type # "VAR" THEN Fail([p EXCEPT !.h = vec_free(args, p.h)])
    ELSE LET m == [name |-> VarName(p.vars, args.items[1].vref), body |-> args]
             Defined(r) == PushEs([p EXCEPT !.macros = r.v, !.h = r.h], expr_constnum(Num(0)))
         IN  Defined(vec_push(p.macros, m, p.h))

\* One turn of "Assign macro parameters": *p becomes the comma node over
\* $j = args[j], j being one more than the turns made, and p moves to its second
\* operand.  acc = [links: the comma nodes so far, vars, h].
AssignLink(args, acc) ==
    LET j == Len(acc.links) + 1
        v == expr_var(acc.vars, MacroVarName(j), acc.h)
        assign == expr_binary("ASSIGN", expr_varref(v.v), args[j], v.h)
        comma == expr_binary("COMMA", assign.e, expr_constnum(Num(0)), assign.h)
    IN  [links |-> Append(acc.links, comma.e), vars |-> v.vars, h |-> comma.h]

\* for(int j = 0; j < vec_len(&arg.args); j++)
RECURSIVE AssignLoop(_, _)
AssignLoop(args, acc) ==
    IF Len(acc.links) >= Len(args) THEN acc ELSE AssignLoop(args, AssignLink(args, acc))

\* One turn of "Expand macro body" before the last: *p becomes a comma node whose
\* first operand is the copy of body[j].  acc = [links, h].
BodyLink(body, acc, funcs) ==
    LET shell == expr_binary("COMMA", expr_constnum(Num(0)), expr_constnum(Num(0)), acc.h)
        c == expr_copy(body[Len(acc.links) + 2], shell.h, funcs)
    IN  [links |-> Append(acc.links, [shell.e EXCEPT !.args.items[1] = c.e]), h |-> c.h]

\* for(int j = 1; j < vec_len(&m.body); j++), the turns with j < vec_len(&m.body) - 1
RECURSIVE BodyLoop(_, _, _)
BodyLoop(body, acc, funcs) ==
    IF Len(acc.links) + 2 >= Len(body) THEN acc
    ELSE BodyLoop(body, BodyLink(body, acc, funcs), funcs)

\* The last turn: *p becomes the copy of the last element of the body; a body of
\* the name alone leaves the expr_constnum(0) that *p held.
BodyLast(body, h, funcs) ==
    IF Len(body) < 2 THEN [e |-> expr_constnum(Num(0)), h |-> h]
    ELSE expr_copy(body[Len(body)], h, funcs)

\* root: each comma node is the second operand of the one before it, and last
\* that of the final one.
RECURSIVE Nest(_, _, _)
Nest(links, i, last) ==
    IF i > Len(links) THEN last
    ELSE [links[i] EXCEPT !.args.items[2] = Nest(links, i + 1, last)]

\* The last macro of that name (the search does not stop at the first), 0 if none.
MacroFound(macros, name) ==
    LET hits == {i \in 1..vec_len(macros) : macros.items[i].name = name}
    IN  IF hits = {} THEN 0 ELSE CHOOSE i \in hits : \A j \in hits : i >= j

\* The call of macro m: the chain is pushed on es and the argument list freed.
MacroExpand(p, m, args, funcs) ==
    LET Root(a, b, l) ==
            [PushEs([p EXCEPT !.vars = a.vars, !.h = l.h], Nest(a.links \o b.links, 1, l.e))
                EXCEPT !.h = vec_free(args, @)]
        Last(a, b) == Root(a, b, BodyLast(m.body.items, b.h, funcs))
        Body(a) == Last(a, BodyLoop(m.body.items, [links |-> <<>>, h |-> a.h], funcs))
    IN  Body(AssignLoop(args.items, [links |-> <<>>, vars |-> p.vars, h |-> p.h]))

FuncCall(p, name, args, funcs) ==
    LET f == expr_func(funcs, name)
        withctx == funcs.tab[f].ctxsz > 0
        bound_func == [expr_init EXCEPT !.type = "FUNC", !.f = f, !.args = args,
                                        !.ctx = IF withctx THEN p.h.next ELSE 0]
    IN  PushEs([p EXCEPT !.h = IF withctx THEN HAlloc(p.h) ELSE p.h], bound_func)

\* The token ")".
\* The end of a call: the name under the "{" that r left behind, args its arguments.
CloseCall(r, name, args, funcs) ==
    IF name = <<"$">> THEN MacroDefine(r, args)
    ELSE IF MacroFound(r.macros, name) # 0
    THEN MacroExpand(r, r.macros.items[MacroFound(r.macros, name)], args, funcs)
    ELSE FuncCall(r, name, args, funcs)

\* The token ")" after the operators above the parenthesis were bound in q.
Closed(q, funcs) ==
    IF q.status # "run" THEN q
    ELSE IF vec_len(q.os) = 0 THEN Fail(q)
    ELSE IF vec_peek(q.os) # <<"{">> THEN [q EXCEPT !.os = vec_pop(q.os)]
    ELSE LET arg == vec_peek(q.as)
             more == vec_len(q.es) > arg.eslen
             a == IF more THEN vec_push(arg.args, vec_peek(q.es), q.h)
                  ELSE [v |-> arg.args, h |-> q.h]
         IN  CloseCall([q EXCEPT !.os = vec_pop(vec_pop(q.os)), !.as = vec_pop(q.as),
                                 !.es = IF more THEN vec_pop(q.es) ELSE q.es, !.h = a.h],
                       vec_peek(vec_pop(q.os)), a.v, funcs)

\* The token ")".
CloseParen(p, funcs) ==
    Closed(PopBind(p, IF vec_len(p.as) > 0 THEN vec_peek(p.as).oslen ELSE 0), funcs)

\* The loop of the operator token: bind what the stack holds that binds tighter,
\* then push; a comma directly inside a call closes the current argument.
\* (void)vec_pop(&os) once expr_bind succeeded.
PopOs(p) == IF p.status = "run" THEN [p EXCEPT !.os = vec_pop(@)] ELSE p

\* Whether the operator of type2 on the stack is bound before op is pushed.
Binds(op, type2) == type2 # "UNKNOWN" /\ expr_prec(op, type2)

\* o2 is the top of the operator stack, the empty string when there is none.
RECURSIVE OpLoop(_, _, _, _)
OpLoop(p, tok, op, ub) ==
    IF p.status # "run" THEN p
    ELSE IF tok = <<",">> /\ vec_len(p.os) > 0 /\ vec_peek(p.os) = <<"{">>
    THEN (IF vec_len(p.es) = 0 THEN (IF ub.crash THEN Crash(p) ELSE Fail(p))
          ELSE LET a == vec_push(vec_peek(p.as).args, vec_peek(p.es), p.h)
               IN  [p EXCEPT !.es = vec_pop(p.es), !.h = a.h,
                             !.as.items[Len(p.as.items)].args = a.v])
    ELSE LET o2 == IF vec_len(p.os) > 0 THEN vec_peek(p.os) ELSE <<>>
         IN  IF ~Binds(op, expr_op(o2, -1)) THEN PushOs(p, tok)
             ELSE OpLoop(PopOs(Bound(p, expr_bind(o2, p.es, p.h))), tok, op, ub)

\* The chain "if(n == 1 && *tok == '(') ... else ..." on the token tok.
Dispatch(p, tok, funcs, ub) ==
    IF p.status # "run" THEN p
    ELSE IF tok = <<"(">>
    THEN (IF p.paren = "EXPECTED"
          THEN LET q == PushOs(p, <<"{">>)
                   arg == [oslen |-> vec_len(q.os), eslen |-> vec_len(q.es), args |-> vec_init]
                   r == vec_push(q.as, arg, q.h)
               IN  [q EXCEPT !.as = r.v, !.h = r.h, !.paren = "ALLOWED"]
          ELSE IF p.paren = "ALLOWED" THEN [PushOs(p, <<"(">>) EXCEPT !.paren = "ALLOWED"]
          ELSE Fail(p))
    ELSE IF p.paren = "EXPECTED" THEN Fail(p)
    ELSE IF tok = <<")">>
    THEN Paren(CloseParen(p, funcs), "FORBIDDEN")
    ELSE IF ~isnan(expr_parse_number(tok))
    THEN [PushEs(p, expr_constnum(expr_parse_number(tok))) EXCEPT !.paren = "FORBIDDEN"]
    ELSE IF tok[1] = "\"" \/ tok[1] = "'"
    THEN [PushNode(p, expr_conststr(tok, Len(tok), p.h)) EXCEPT !.paren = "FORBIDDEN"]
    ELSE IF expr_op(tok, -1) # "UNKNOWN"
    THEN Paren(OpLoop(p, tok, expr_op(tok, -1), ub), "ALLOWED")
    ELSE IF ~isdigit(tok[1]) THEN [p EXCEPT !.id = tok, !.paren = "ALLOWED"]
    ELSE Fail(p)

\* One turn of the for(;;) loop of expr_create.  A token longer than the rest of
\* the text (n > len) leaves len = len - n wrapped around and s past the NUL: the
\* next expr_next_token reads outside the caller's buffer.
\* The body of the loop on the token tk = [n, flags] that expr_next_token gave.
Token(p, tk, funcs, ub) ==
    IF tk.n = 0 THEN [p EXCEPT !.status = "break"]
    ELSE IF tk.n < 0 THEN Fail(p)
    ELSE
      LET over == tk.n > Len(p.s)
          raw == IF over THEN p.s \o <<NUL>> ELSE SubSeq(p.s, 1, tk.n)
          p1 == [p EXCEPT !.s = IF over THEN <<>> ELSE SubSeq(p.s, tk.n + 1, Len(p.s)),
                          !.over = over, !.flags = tk.flags,
                          !.maxtok = IF tk.n - Len(p.s) > @ THEN tk.n - Len(p.s) ELSE @]
          unary == "UNARY" \in tk.flags /\ tk.n = 1
          nlcomma == raw[1] = NL /\ "COMMA" \in tk.flags
          \* The token as the chain below sees it: a unary operator is spelt with a
          \* trailing u, a newline that ends a statement is a comma.
          Seen(tok) ==
              IF raw[1] = "#" THEN p1
              ELSE IF unary /\ raw[1] \notin {"-", "^", "!"} THEN Fail(p1)
              ELSE IF isspace(tok[1])
              THEN (IF nlcomma THEN [p1 EXCEPT !.flags = @ \ {"COMMA"}] ELSE p1)
              ELSE Dispatch(IdStep(IF nlcomma THEN [p1 EXCEPT !.flags = @ \ {"COMMA"}] ELSE p1,
                                   tok, funcs, ub),
                            tok, funcs, ub)
      IN  Seen(IF nlcomma THEN <<",">> ELSE IF unary THEN <<raw[1], "u">> ELSE raw)

Step(p, funcs, ub) ==
    IF p.over THEN (IF ub.crash THEN Crash(p) ELSE Fail(p))
    ELSE Token(p, expr_next_token(p.s, p.flags), funcs, ub)

\* At most n turns of the for(;;) loop: the first half of them, then the rest.
RECURSIVE Turns(_, _, _, _)
Turns(p, n, funcs, ub) ==
    IF p.status # "run" \/ n = 0 THEN p
    ELSE IF n = 1 THEN Step(p, funcs, ub)
    ELSE Turns(Turns(p, n \div 2, funcs, ub), n - n \div 2, funcs, ub)

\* The for(;;) loop: a turn that goes on takes at least one character of the
\* text, so one turn more than its length ends the loop.
ParseLoop(p, funcs, ub) == Turns(p, Len(p.s) + 1, funcs, ub)

\* while(vec_len(&os) > 0) after the loop: bind what is left on the stack.
RECURSIVE PopRest(_)
PopRest(p) ==
    IF p.status # "break" \/ vec_len(p.os) = 0 THEN p
    ELSE IF vec_peek(p.os) \in {<<"(">>, <<")">>} THEN Fail([p EXCEPT !.os = vec_pop(@)])
    ELSE PopRest(Bound([p EXCEPT !.os = vec_pop(@)], expr_bind(vec_peek(p.os), p.es, p.h)))

\* vec_foreach(&macros, m, i) { vec_foreach(&m.body, e, j) expr_destroy_args(&e);
\* vec_free(&m.body); }: the calls made, in order.
RECURSIVE DestroyMacros(_, _)
DestroyMacros(ms, funcs) ==
    IF ms = <<>> THEN <<>>
    ELSE ReleasedEach(Head(ms).body.items, funcs) \o FreeOf(Head(ms).body.buf)
         \o DestroyMacros(Tail(ms), funcs)

\* vec_foreach(&as, a, i) { vec_foreach(&a.args, e, j) expr_destroy_args(&e);
\* vec_free(&a.args); }: the calls made, in order.
RECURSIVE DestroyFrames(_, _)
DestroyFrames(fs, funcs) ==
    IF fs = <<>> THEN <<>>
    ELSE ReleasedEach(Head(fs).args.items, funcs) \o FreeOf(Head(fs).args.buf)
         \o DestroyFrames(Tail(fs), funcs)

\* The label cleanup: of expr_create: the heap after the stacks are released.
Cleanup(p, funcs) ==
    HRun(p.h, DestroyMacros(p.macros.items, funcs) \o FreeOf(p.macros.buf)
              \o ReleasedEach(p.es.items, funcs) \o FreeOf(p.es.buf)
              \o DestroyFrames(p.as.items, funcs) \o FreeOf(p.as.buf)
              \o FreeOf(p.os.buf))

\* A plausible slip in expr_create: the macro list outlives the call, so that
\* the names defined before, which all are slots of the table, are macros still
\* (their bodies released).
ParserInit_keepmacros(s, vars, h) ==
    [s |-> s, over |-> FALSE, flags |-> EXPR_TDEFAULT, paren |-> "ALLOWED", id |-> <<>>,
     es |-> vec_init, os |-> vec_init, as |-> vec_init,
     macros |-> [buf |-> 0,
                 items |-> [i \in 1..Len(vars) |-> [name |-> vars[i].name, body |-> vec_init]]],
     vars |-> vars, h |-> h, status |-> "run", maxtok |-> 0]

ParserInit(s, vars, h) ==
    [s |-> s, over |-> FALSE, flags |-> EXPR_TDEFAULT, paren |-> "ALLOWED", id |-> <<>>,
     es |-> vec_init, os |-> vec_init, as |-> vec_init, macros |-> vec_init,
     vars |-> vars, h |-> h, status |-> "run", maxtok |-> 0]

\* expr_create(s, len, vars, funcs) with len = strlen(s):
\* [status: "ok" | "null" | "crash", e: the root node, rid: its block, vars, h,
\*  maxtok: the most by which a token's length exceeded the text left].
\* "if(idn > 0)" after the loop: a pending identifier is a variable.
LastId(p) ==
    IF p.status # "break" \/ p.id = <<>> THEN p ELSE PushVar(p, expr_var(p.vars, p.id, p.h))

\* result = calloc(...), the root popped off es, and the label cleanup:.
Result(p, funcs) ==
    IF p.status = "crash"
    THEN [status |-> "crash", e |-> expr_init, rid |-> 0, vars |-> p.vars, h |-> p.h,
          maxtok |-> p.maxtok]
    ELSE IF p.status # "break"
    THEN [status |-> "null", e |-> expr_init, rid |-> 0, vars |-> p.vars,
          h |-> Cleanup(p, funcs), maxtok |-> p.maxtok]
    ELSE [status |-> "ok",
          e |-> IF vec_len(p.es) = 0 THEN expr_constnum(Num(0)) ELSE vec_peek(p.es),
          rid |-> p.h.next, vars |-> p.vars,
          h |-> Cleanup([p EXCEPT !.h = HAlloc(@),
                                  !.es = IF vec_len(@) = 0 THEN @ ELSE vec_pop(@)], funcs),
          maxtok |-> p.maxtok]

expr_create(s, vars, funcs, h, ub) ==
    Result(PopRest(LastId(ParseLoop(ParserInit(s, vars, h), funcs, ub))), funcs)

(***************************************************************************)
(* The shape of a tree: its kinds, values and names, without block ids.    *)
(***************************************************************************)
RECURSIVE Shape(_, _)
RECURSIVE ShapeEach(_, _)
ShapeEach(items, vars) ==
    IF items = <<>> THEN <<>> ELSE <<Shape(Head(items), vars)>> \o ShapeEach(Tail(items), vars)

Shape(e, vars) ==
    IF e.type = "CONSTNUM" THEN <<"num", e.nval>>
    ELSE IF e.type = "CONSTSTZ" THEN (IF e.sid = 0 THEN <<"nullstr">> ELSE <<"str", e.sval>>)
    ELSE IF e.type = "VAR" THEN <<"var", VarName(vars, e.vref)>>
    ELSE IF e.type = "FUNC" THEN <<"call", e.f, ShapeEach(e.args.items, vars)>>
    ELSE <<e.type>> \o ShapeEach(e.args.items, vars)

(***************************************************************************)
(* Evaluator.  A result is [k: "num" | "str" | "null" | "crash", nval,     *)
(* sval, id: the node's block, sid: the string's block].  The machine m is *)
(* [vars, h, ev]: ev lists the callbacks invoked and the slots written.    *)
(* ub resolves the undefined reads: ub.crash says whether a read through a *)
(* null pointer kills the process or yields ub.g; ub.g is also the float   *)
(* that the bytes of a string pointer read as.                             *)
(***************************************************************************)
RNull == [k |-> "null", nval |-> Num(0), sval |-> <<>>, id |-> 0, sid |-> 0]

RCrash == [k |-> "crash", nval |-> Num(0), sval |-> <<>>, id |-> 0, sid |-> 0]

\* expr_convert_num(value, ctype): [r, h].
expr_convert_num(value, ctype, h) ==
    IF ctype = "CONSTSTZ"
    THEN [r |-> [k |-> "str", nval |-> Num(0), sval |-> FmtG(value), id |-> h.next,
                 sid |-> h.next + 1],
          h |-> HAlloc(HAlloc(h))]
    ELSE [r |-> [k |-> "num", nval |-> value, sval |-> <<>>, id |-> h.next, sid |-> 0],
          h |-> HAlloc(h)]

\* expr_convert_stz(value, ctype) for a string that is not null: [r, h].
expr_convert_stz(value, ctype, h) ==
    IF ctype = "CONSTNUM"
    THEN [r |-> [k |-> "num", nval |-> atof(value), sval |-> <<>>, id |-> h.next, sid |-> 0],
          h |-> HAlloc(h)]
    ELSE [r |-> [k |-> "str", nval |-> Num(0), sval |-> value, id |-> h.next,
                 sid |-> h.next + 1],
          h |-> HAlloc(HAlloc(h))]

\* expr_concat_strz(value0, value1): [r, h].
expr_concat_strz(value0, value1, h) ==
    [r |-> [k |-> "str", nval |-> Num(0), sval |-> value0 \o value1, id |-> h.next,
            sid |-> h.next + 1],
     h |-> HAlloc(HAlloc(h))]

\* expr_result_free(e): the heap afterwards.
expr_result_free(r, h) ==
    IF r.k \notin {"num", "str"} THEN h
    ELSE HFree(IF r.k = "str" /\ r.sid # 0 THEN HFree(h, r.sid) ELSE h, r.id)

\* The bits of a two's-complement int, by floor division.
BitF(op, x, y) ==
    IF op = "BITWISE_AND" THEN x * y
    ELSE IF op = "BITWISE_OR" THEN (IF x + y > 0 THEN 1 ELSE 0)
    ELSE (x + y) % 2

\* The value bits of an int.
INT_BITS == 31

\* Bit i of the two's complement int x.
BitAt(x, i) == (x \div 2 ^ i) % 2

\* The value bits lo..hi of a op b, each at its weight.
RECURSIVE BitSum(_, _, _, _, _)
BitSum(op, a, b, lo, hi) ==
    IF lo = hi THEN 2 ^ lo * BitF(op, BitAt(a, lo), BitAt(b, lo))
    ELSE BitSum(op, a, b, lo, (lo + hi) \div 2) + BitSum(op, a, b, (lo + hi) \div 2 + 1, hi)

\* a op b on ints of k value bits and a sign bit, which weighs -2^k.
BitOp(op, a, b, k) ==
    IF BitF(op, IF a < 0 THEN 1 ELSE 0, IF b < 0 THEN 1 ELSE 0) = 1
    THEN BitSum(op, a, b, 0, k - 1) - 2 ^ (k - 1) - 2 ^ (k - 1)
    ELSE BitSum(op, a, b, 0, k - 1)

\* The arithmetic of the two-operand numeric cases; a shift that C leaves
\* undefined yields ub.g.
Arith(type, l, r, ub) ==
    IF type = "POWER" THEN FPow(l, r)
    ELSE IF type = "MULTIPLY" THEN FMul(l, r)
    ELSE IF type = "DIVIDE" THEN FDiv(l, r)
    ELSE IF type = "REMAINDER" THEN FMod(l, r)
    ELSE IF type = "MINUS" THEN FSub(l, r)
    ELSE IF l = Unrep \/ r = Unrep THEN Unrep
    ELSE IF type = "SHL"
    THEN (IF to_int(r) < 0 \/ to_int(r) >= INT_BITS \/ to_int(l) < 0
             \/ to_int(l) > INT_MAX \div IntPow(2, to_int(r))
          THEN ub.g ELSE Num(to_int(l) * IntPow(2, to_int(r))))
    ELSE IF type = "SHR"
    THEN (IF to_int(r) < 0 \/ to_int(r) > INT_BITS THEN ub.g
          ELSE IF to_int(r) = INT_BITS THEN Num((to_int(l) \div 2) \div IntPow(2, INT_BITS - 1))
          ELSE Num(to_int(l) \div IntPow(2, to_int(r))))
    ELSE Num(BitOp(type, to_int(l), to_int(r), INT_BITS))

\* The C comparison _CMPOP_ on two floats, as 1 or 0.
CmpNum(type, l, r) ==
    LET t == IF type = "LT" THEN FLt(l, r)
             ELSE IF type = "LE" THEN FLt(l, r) \/ FEq(l, r)
             ELSE IF type = "GT" THEN FLt(r, l)
             ELSE IF type = "GE" THEN FLt(r, l) \/ FEq(l, r)
             ELSE IF type = "EQ" THEN FEq(l, r)
             ELSE ~FEq(l, r)
    IN  IF t THEN Num(1) ELSE Num(0)

\* strcmp(l, r) _CMPOP_ 0.
CmpStr(type, l, r) ==
    LET c == strcmp(l, r)
    IN  IF type = "LT" THEN c < 0
        ELSE IF type = "LE" THEN c <= 0
        ELSE IF type = "GT" THEN c > 0
        ELSE IF type = "GE" THEN c >= 0
        ELSE IF type = "EQ" THEN c = 0
        ELSE c # 0

CmpTypes == {"LT", "LE", "GT", "GE", "EQ", "NE"}

\* The labels done: and error: release rv0 and rv1 and return lv, or NULL.
Done(lv, m, rv0, rv1) ==
    [r |-> lv, m |-> [m EXCEPT !.h = expr_result_free(rv1, expr_result_free(rv0, @))]]

Error(m, rv0, rv1) == Done(RNull, m, rv0, rv1)

\* lv = c.r, c = [r, h] being what a conversion gave; goto done
Converted(c, m, rv0, rv1) == Done(c.r, [m EXCEPT !.h = c.h], rv0, rv1)

\* lv = expr_convert_num(value, SNE_OP_CONSTNUM); goto done
DoneNum(value, m, rv0, rv1) ==
    Converted(expr_convert_num(value, "CONSTNUM", m.h), m, rv0, rv1)

\* rv->param.num.nval read through rv: the float of a numeric result, the bytes
\* of the string pointer of a string result, a null dereference of NULL.
NvalOf(rv, ub) == IF rv.k = "num" THEN rv.nval ELSE ub.g

Undefined(m) == [r |-> RCrash, m |-> m]

\* The + and comparison cases on strings: l is the left text and tv = [r, h] the
\* right operand as a string.  A comparison does not release the concatenation.
StrCase(type, l, tv, m, rv0) ==
    IF type = "PLUS" THEN Converted(expr_concat_strz(l, tv.r.sval, tv.h), m, rv0, tv.r)
    ELSE DoneNum(IF CmpStr(type, l, tv.r.sval) THEN Num(1) ELSE Num(0),
                 [m EXCEPT !.h = expr_concat_strz(l, tv.r.sval, tv.h).h], rv0, tv.r)

\* The + and comparison cases on numbers: l is the left number and tv = [r, h] the
\* right operand as a number.
NumCase(type, l, tv, m, rv0) ==
    DoneNum(IF type = "PLUS" THEN FAdd(l, tv.r.nval) ELSE CmpNum(type, l, tv.r.nval),
            [m EXCEPT !.h = tv.h], rv0, tv.r)

\* The call case once the callback returned c = [r, m, val].
Called(c) ==
    IF c.r.k = "crash" THEN [r |-> RCrash, m |-> c.m]
    ELSE DoneNum(c.val, c.m, RNull, RNull)

RECURSIVE expr_eval(_, _, _, _)

\* The host callback of registry entry f (exprfn_t).  An entry with eager set
\* evaluates its first argument and returns that number plus one (0 when there
\* is none or it is no number); any other returns its ret.
Callback(e, m, funcs, ub) ==
    LET f == funcs.tab[e.f]
        m1 == [m EXCEPT !.ev = Append(@, [k |-> "call", f |-> e.f, v |-> 0, val |-> Num(0)])]
    IN  IF ~f.eager \/ vec_len(e.args) = 0 THEN [r |-> RNull, m |-> m1, val |-> f.ret]
        ELSE LET a == expr_eval(e.args.items[1], m1, funcs, ub)
             IN  IF a.r.k = "crash" THEN [r |-> RCrash, m |-> a.m, val |-> Num(0)]
                 ELSE [r |-> RNull,
                       m |-> [a.m EXCEPT !.h = expr_result_free(a.r, @)],
                       val |-> IF a.r.k = "num" THEN FAdd(a.r.nval, Num(1)) ELSE Num(0)]

\* A plausible slip in the && and || cases: the right operand is evaluated first.
ShortCircuit_eager(type, n) == TRUE

\* Whether the && (||) case goes on to evaluate its right operand after the left
\* one gave n.
ShortCircuit(type, n) ==
    IF type = "LOGICAL_AND" THEN n # Num(0) ELSE ~(n # Num(0) /\ ~isnan(n))

\* A plausible slip in the + and comparison cases: the right operand picks the mode.
StringMode_right(rv0, rv1) == rv1.k = "str"

\* Whether the + and comparison cases work on strings.
StringMode(rv0, rv1) == rv0.k = "str"

\* expr_eval(e): [r: the result, m: the machine afterwards].
expr_eval(e, m, funcs, ub) ==
    LET E0 == expr_eval(e.args.items[1], m, funcs, ub)
        rv0 == E0.r
        E1 == expr_eval(e.args.items[2], E0.m, funcs, ub)
        rv1 == E1.r
    IN  CASE expr_is_unary(e.type) ->
             (IF rv0.k = "crash" THEN E0
              ELSE IF rv0.k # "num" THEN Error(E0.m, rv0, RNull)
              ELSE DoneNum(IF e.type = "UNARY_MINUS" THEN FNeg(rv0.nval)
                           ELSE IF e.type = "UNARY_LOGICAL_NOT"
                           THEN (IF rv0.nval = Num(0) THEN Num(1) ELSE Num(0))
                           ELSE Num(-to_int(rv0.nval) - 1),
                           E0.m, rv0, RNull))
          [] e.type \in {"POWER", "MULTIPLY", "DIVIDE", "REMAINDER", "MINUS", "SHL", "SHR",
                          "BITWISE_AND", "BITWISE_OR", "BITWISE_XOR"} ->
             (IF rv0.k = "crash" THEN E0
              ELSE IF rv0.k # "num" THEN Error(E0.m, rv0, RNull)
              ELSE IF rv1.k = "crash" THEN E1
              ELSE IF rv1.k # "num" THEN Error(E1.m, rv0, rv1)
              ELSE IF e.type = "DIVIDE" /\ rv1.nval = Num(0) THEN Error(E1.m, rv0, rv1)
              ELSE DoneNum(Arith(e.type, rv0.nval, rv1.nval, ub), E1.m, rv0, rv1))
          [] e.type = "PLUS" \/ e.type \in CmpTypes ->
             (IF rv0.k = "crash" THEN E0
              ELSE IF rv0.k = "null" THEN Error(E0.m, rv0, RNull)
              ELSE IF rv1.k = "crash" THEN E1
              ELSE IF rv1.k = "null" THEN Error(E1.m, rv0, rv1)
              ELSE IF StringMode(rv0, rv1)
              THEN StrCase(e.type,
                           IF rv0.k = "str" THEN rv0.sval ELSE FmtG(rv0.nval),
                           IF rv1.k = "num"
                           THEN expr_convert_num(rv1.nval, "CONSTSTZ",
                                                 expr_result_free(rv1, E1.m.h))
                           ELSE [r |-> rv1, h |-> E1.m.h],
                           E1.m, rv0)
              ELSE NumCase(e.type,
                           IF rv0.k = "num" THEN rv0.nval ELSE atof(rv0.sval),
                           IF rv1.k = "str"
                           THEN expr_convert_stz(rv1.sval, "CONSTNUM",
                                                 expr_result_free(rv1, E1.m.h))
                           ELSE [r |-> rv1, h |-> E1.m.h],
                           E1.m, rv0))
          [] e.type \in {"LOGICAL_AND", "LOGICAL_OR"} ->
             (IF rv0.k = "crash" THEN E0
              ELSE IF rv0.k = "null" /\ ub.crash THEN Undefined(E0.m)
              ELSE IF ~ShortCircuit(e.type, NvalOf(rv0, ub))
              THEN DoneNum(IF e.type = "LOGICAL_AND" THEN Num(0) ELSE NvalOf(rv0, ub),
                           E0.m, rv0, RNull)
              ELSE IF rv1.k = "crash" THEN E1
              ELSE IF rv1.k = "null" /\ ub.crash THEN Undefined(E1.m)
              ELSE DoneNum(IF NvalOf(rv1, ub) # Num(0) THEN NvalOf(rv1, ub) ELSE Num(0),
                           E1.m, rv0, rv1))
          [] e.type = "ASSIGN" ->
             LET A == expr_eval(e.args.items[2], m, funcs, ub)
                 n == NvalOf(A.r, ub)
                 lhs == e.args.items[1]
                 m1 == IF lhs.type = "VAR"
                       THEN [A.m EXCEPT !.vars = SetVar(@, lhs.vref, n),
                                        !.ev = Append(@, [k |-> "write", f |-> 0,
                                                          v |-> lhs.vref, val |-> n])]
                       ELSE A.m
             IN  IF A.r.k = "crash" THEN A
                 ELSE IF A.r.k = "null" /\ ub.crash THEN Undefined(A.m)
                 ELSE DoneNum(n, m1, RNull, A.r)
          [] e.type = "COMMA" ->
             (IF rv0.k = "crash" THEN E0
              ELSE IF rv1.k = "crash" THEN E1
              ELSE IF rv1.k = "null" /\ ub.crash THEN Undefined(E1.m)
              ELSE DoneNum(NvalOf(rv1, ub), E1.m, rv0, rv1))
          [] e.type = "CONSTNUM" -> DoneNum(e.nval, m, RNull, RNull)
          [] e.type = "CONSTSTZ" ->
             (IF e.sid = 0 /\ ub.crash THEN Undefined(m)
              ELSE Converted(expr_convert_stz(e.sval, "CONSTSTZ", m.h), m, RNull, RNull))
          [] e.type = "VAR" -> DoneNum(VarValue(m.vars, e.vref), m, RNull, RNull)
          [] e.type = "FUNC" -> Called(Callback(e, m, funcs, ub))
          [] OTHER -> DoneNum(NaN, m, RNull, RNull)

\* expr_destroy(e, vars) of a root in block rid, with a table: the heap
\* afterwards.  Every slot is freed (vars->head is left as it was).
\* for(v = vars->head; v;) { next = v->next; free(v); v = next; }
FreeSlots(vars) == [i \in 1..Len(vars) |-> FreeOf(vars[i].id)[1]]

expr_destroy(e, rid, vars, h, funcs) ==
    HRun(h, (IF rid # 0 THEN Released(e, funcs) \o FreeOf(rid) ELSE <<>>) \o FreeSlots(vars))


(***************************************************************************)
(* The host program: it parses one text against a registry and an empty    *)
(* variable table, evaluates the tree, releases each result and finally    *)
(* destroys the tree and the table (the sequence of src/test/tsnexpr.c).   *)
(***************************************************************************)
VARIABLES pc, text, funcs, ast, vars, heap, res, ev, nevals, ncreates

state == <<pc, text, funcs, ast, vars, heap, res, ev, nevals, ncreates>>

\* The registry of the host: f takes no context and has no cleanup; g takes a
\* context of four bytes, has a cleanup and evaluates its first argument; k has
\* a cleanup and declares no context (ctxsz 0).
HostFuncs ==
    [null |-> FALSE,
     tab |-> <<[name |-> <<"f">>, ctxsz |-> 0, cleanup |-> FALSE, eager |-> FALSE, ret |-> Num(7)],
               [name |-> <<"g">>, ctxsz |-> 4, cleanup |-> TRUE, eager |-> TRUE, ret |-> Num(0)],
               [name |-> <<"k">>, ctxsz |-> 0, cleanup |-> TRUE, eager |-> FALSE, ret |-> Num(1)]>>]

\* The null registry that src/test/tsnexpr.c passes.
NullFuncs == [null |-> TRUE, tab |-> <<>>]

Registries == {HostFuncs, NullFuncs}

\* What an undefined read can give: the process dies or goes on with some float.
Garbage == {Num(0), Num(99), NaN}

UB == [crash : BOOLEAN, g : Garbage]

\* How often the host evaluates one tree.
MaxEvals == 2

Programs ==
    \* null operands
    { <<"a", " ", "=", " ", "1", "/", "0">>   \* a = 1/0
    , <<"(", "1", "/", "0", ")", " ", "&", "&", " ", "1">>   \* (1/0) && 1
    , <<"1", ",", " ", "1", "/", "0">>   \* 1, 1/0
    , <<"(", "1", "/", "0", ")", " ", "|", "|", " ", "1">>   \* (1/0) || 1
    , <<"1", "/", "0", ",", " ", "1">>   \* 1/0, 1
    , <<"1", "/", "0", " ", "+", " ", "1">>   \* 1/0 + 1
    , <<"-", "(", "1", "/", "0", ")">>   \* -(1/0)
    , <<"2", " ", "*", " ", "(", "1", "/", "0", ")">>   \* 2 * (1/0)
    , <<"(", "1", "/", "0", ")", " ", "<", " ", "1">>   \* (1/0) < 1
    \* strings and assignment
    , <<"s", "=", "\"", "4", "\"", ",", "s", "=", "s", "+", "\"", "5", "\"">>   \* s="4",s=s+"5"
    , <<"s", "=", "\"", "4", "\"">>   \* s="4"
    , <<"\"", "a", "b", "c", "\"">>   \* "abc"
    , <<"x", " ", "=", " ", "3", ",", " ", "x", " ", "+", " ", "1">>   \* x = 3, x + 1
    \* allocation balance
    , <<"\"", "a", "b", "c", "\"", " ", "=", "=", " ", "\"", "a", "b", "c", "\"">>   \* "abc" == "abc"
    , <<"\"", "a", "\"", " ", "<", " ", "1">>   \* "a" < 1
    , <<"f", "(", "1", ")", "+", "g", "(", "2", ")">>   \* f(1)+g(2)
    , <<"$", "(", "S", "Q", "R", ",", " ", "$", "1", "*", "$", "1", ")", ",", " ", "S", "Q", "R", "(", "5", ")">>   \* $(SQR, $1*$1), SQR(5)
    , <<"1", "+", "2", "*", "3">>   \* 1+2*3
    , <<"g", "(", "x", "=", "3", ")">>   \* g(x=3)
    , <<"5", "&", "3", "|", "8", "^", "1">>   \* 5&3|8^1
    \* associativity
    , <<"1", "0", "-", "2", "-", "3">>   \* 10-2-3
    , <<"1", "2", "/", "2", "/", "3">>   \* 12/2/3
    , <<"1", "/", "3", "*", "6", "/", "4", "*", "2">>   \* 1/3*6/4*2
    , <<"2", "*", "*", "3", "*", "*", "2">>   \* 2**3**2
    , <<"a", "=", "b", "=", "3">>   \* a=b=3
    \* short circuit
    , <<"0", " ", "&", "&", " ", "f", "(", "1", ")">>   \* 0 && f(1)
    , <<"1", " ", "|", "|", " ", "f", "(", "1", ")">>   \* 1 || f(1)
    , <<"0", " ", "&", "&", " ", "(", "x", "=", "3", ")">>   \* 0 && (x=3)
    , <<"2", " ", "|", "|", " ", "(", "x", "=", "3", ")">>   \* 2 || (x=3)
    , <<"1", " ", "&", "&", " ", "f", "(", "1", ")">>   \* 1 && f(1)
    , <<"0", " ", "|", "|", " ", "(", "x", "=", "3", ")">>   \* 0 || (x=3)
    , <<"(", "1", "%", "0", ")", " ", "|", "|", " ", "f", "(", "1", ")">>   \* (1%0) || f(1)
    , <<"0", " ", "&", "&", " ", "g", "(", "x", "=", "3", ")">>   \* 0 && g(x=3)
    , <<"(", "3", "-", "3", ")", " ", "&", "&", " ", "g", "(", "x", "=", "3", ")">>   \* (3-3) && g(x=3)
    , <<"(", "1", "-", "3", ")", " ", "|", "|", " ", "g", "(", "x", "=", "3", ")">>   \* (1-3) || g(x=3)
    , <<"x", " ", "&", "&", " ", "f", "(", "1", ")">>   \* x && f(1)
    , <<"\"", "x", "\"", " ", "&", "&", " ", "1">>   \* "x" && 1
    \* operand modes
    , <<"1", "+", "\"", "2", "\"">>   \* 1+"2"
    , <<"\"", "3", "\"", "+", "4">>   \* "3"+4
    , <<"\"", "1", "\"", "+", "\"", "2", "\"">>   \* "1"+"2"
    , <<"\"", "1", "2", "\"", " ", "=", "=", " ", "\"", "1", "\"", " ", "+", " ", "2">>   \* "12" == "1" + 2
    \* macros
    , <<"$", "(", "A", ",", "$", "1", "-", "$", "2", ")", ",", "A", "(", "5", ",", "3", ")">>   \* $(A,$1-$2),A(5,3)
    , <<"$", "(", "m", ",", "1", ")", ",", "m", "(", ")">>   \* $(m,1),m()
    \* calls
    , <<"h", "(", "1", ")">>   \* h(1)
    , <<"f", "(", "1", ")">>   \* f(1)
    , <<"x", "(">>   \* x(
    , <<"x">>   \* x
    \* string literals
    , <<"\"", "a", "b", "c">>   \* "abc
    , <<"'", "a", "b", "c">>   \* 'abc
    , <<"\"">>   \* "
    , <<"1", "+", "\"", "a">>   \* 1+"a
    , <<"'", "a", "b", "c", "'">>   \* 'abc'
    , <<"\"", "a", "\"", " ", "+", " ", "\"", "b">>   \* "a" + "b
    \* failed parses
    , <<"1", "+", "2", "=", "3">>   \* 1+2=3
    , <<"$", "(", "1", "+", "2", ")">>   \* $(1+2)
    , <<"$", "(", "\"", "a", "\"", ")">>   \* $("a")
    , <<"(", "1", "+", "2">>   \* (1+2
    , <<"x", "=", "1", "+", "2", ")">>   \* x=1+2)
    , <<"$", "(", ")">>   \* $()
    , <<"g", "(", "1", ")", "=", "2">>   \* g(1)=2
    \* strings in macro bodies
    , <<"$", "(", "S", ",", "\"", "a", "b", "\"", ")", ",", "S", "(", ")">>   \* $(S,"ab"),S()
    \* blanks
    , <<"-", "3">>   \* -3
    , <<"-", " ", "3">>   \* - 3
    , <<"-", " ", " ", "3">>   \* -  3
    , <<"1", " ", "+", TAB, "2">>   \* 1 +<TAB>2
    , <<"!", " ", "x">>   \* ! x
    , <<"f", "(", " ", "1", " ", ")">>   \* f( 1 )
    \* cleanup callbacks
    , <<"k", "(", "1", ")">>   \* k(1)
    , <<"g", "(", "k", "(", "2", ")", ")">>   \* g(k(2))
    }

\* The most arguments of a macro call of the host.
MaxArgs == 10

\* The text 1,2,...,k
RECURSIVE ArgList(_)
ArgList(k) == IF k = 1 THEN <<"1">> ELSE ArgList(k - 1) \o <<",">> \o DigitsOf(k)

\* The text $(M,$k),M(1,2,...,k): a macro whose body is its last argument.
MacroCall(k) ==
    <<"$", "(", "M", ",", "$">> \o DigitsOf(k) \o <<")", ",", "M", "(">> \o ArgList(k) \o <<")">>

MacroCalls == {MacroCall(k) : k \in 1..MaxArgs}

NoAst == [e |-> expr_init, rid |-> 0, maxtok |-> 0]

Init ==
    /\ pc = "start"
    /\ text = <<>>
    /\ funcs = NullFuncs
    /\ ast = NoAst
    /\ vars = <<>>
    /\ heap = EmptyHeap
    /\ res = RNull
    /\ ev = <<>>
    /\ nevals = 0
    /\ ncreates = 0

\* e = expr_create(s, strlen(s), &vars, fs)
CreateOf(s, fs) ==
    /\ pc = "start"
    /\ \E ub \in UB :
        \E c \in {expr_create(s, vars, fs, heap, ub)} :
            /\ pc' = IF c.status = "ok" THEN "created"
                     ELSE IF c.status = "null" THEN "failed" ELSE "crashed"
            /\ ast' = [e |-> c.e, rid |-> c.rid, maxtok |-> c.maxtok]
            /\ vars' = c.vars
            /\ heap' = c.h
    /\ text' = s
    /\ funcs' = fs
    /\ ncreates' = ncreates + 1
    /\ UNCHANGED <<res, ev, nevals>>

Create == \E s \in Programs \cup MacroCalls, fs \in Registries : CreateOf(s, fs)

\* result = expr_eval(e)
Eval ==
    /\ pc \in {"created", "freed"}
    /\ nevals < MaxEvals
    /\ \E ub \in UB :
        \E r \in {expr_eval(ast.e, [vars |-> vars, h |-> heap, ev |-> <<>>], funcs, ub)} :
            /\ pc' = IF r.r.k = "crash" THEN "crashed" ELSE "evaluated"
            /\ res' = r.r
            /\ vars' = r.m.vars
            /\ heap' = r.m.h
            /\ ev' = r.m.ev
    /\ nevals' = nevals + 1
    /\ UNCHANGED <<text, funcs, ast, ncreates>>

\* expr_result_free(result)
ResultFree ==
    /\ pc = "evaluated"
    /\ pc' = "freed"
    /\ heap' = expr_result_free(res, heap)
    /\ UNCHANGED <<text, funcs, ast, vars, res, ev, nevals, ncreates>>

\* expr_destroy(e, &vars)
Destroy ==
    /\ pc \in {"created", "freed"}
    /\ pc' = "destroyed"
    /\ heap' = expr_destroy(ast.e, ast.rid, vars, heap, funcs)
    /\ UNCHANGED <<text, funcs, ast, vars, res, ev, nevals, ncreates>>

Next == Create \/ Eval \/ ResultFree \/ Destroy

Spec == Init /\ [][Next]_state


(***************************************************************************)
(* Operator chains: the host parses and evaluates x op1 y op2 z, plain and *)
(* with either pair parenthesised, for every two binary operators.         *)
(***************************************************************************)
\* The binary entries of OPS.
BinOps == {i \in 1..Len(OPS) : expr_is_binary(OPS[i].op)}

Forms == {"plain", "left", "right"}

\* x a y b z: plain, (x a y) b z or x a (y b z).
Chain(a, b, form) ==
    LET l == <<"x">> \o OPS[a].s \o <<"y">>
        r == <<"y">> \o OPS[b].s \o <<"z">>
    IN  IF form = "left" THEN <<"(">> \o l \o <<")">> \o OPS[b].s \o <<"z">>
        ELSE IF form = "right" THEN <<"x">> \o OPS[a].s \o <<"(">> \o r \o <<")">>
        ELSE l \o OPS[b].s \o <<"z">>

Chains == {Chain(a, b, form) : a \in BinOps, b \in BinOps, form \in Forms}

AssocExamples ==
    { <<"1", "0", "-", "2", "-", "3">>   \* 10-2-3
    , <<"1", "2", "/", "2", "/", "3">>   \* 12/2/3
    , <<"1", "/", "3", "*", "6", "/", "4", "*", "2">>   \* 1/3*6/4*2
    , <<"2", "*", "*", "3", "*", "*", "2">>   \* 2**3**2
    , <<"a", "=", "b", "=", "3">>   \* a=b=3
    }

CreateChain == \E s \in Chains \cup AssocExamples : CreateOf(s, HostFuncs)

PrecNext == CreateChain \/ Eval \/ ResultFree \/ Destroy

SpecPrec == Init /\ [][PrecNext]_state


(***************************************************************************)
(* Properties                                                              *)
(***************************************************************************)
\* A step of the host that is a call of expr_eval.
EvalStep == pc \in {"created", "freed"} /\ pc' \in {"evaluated", "crashed"}

\* The operands whose evaluation every case of expr_eval starts with: the right
\* side of an assignment, the left side of && and ||, every operand otherwise.
FirstOperands(e) ==
    IF e.type \in {"CONSTNUM", "CONSTSTZ", "VAR", "FUNC", "UNKNOWN"} THEN {}
    ELSE IF e.type = "ASSIGN" THEN {2}
    ELSE IF e.type \in {"LOGICAL_AND", "LOGICAL_OR"} THEN {1}
    ELSE 1..vec_len(e.args)

\* The evaluation of operand i of the root, from the current state, returns null.
OperandNull(i) ==
    \E ub \in UB :
        expr_eval(ast.e.args.items[i], [vars |-> vars, h |-> heap, ev |-> <<>>], funcs, ub).r.k
            = "null"

\* C1: whenever the evaluation of an operand of the root returns null, expr_eval
\* returns null without crashing, for every operator kind; the results obtained
\* are released (the live blocks are those from before) and no slot is written.
C1_NullPropagates ==
    [][(EvalStep /\ \E i \in FirstOperands(ast.e) : OperandNull(i))
        => (pc' = "evaluated" /\ res'.k = "null" /\ vars' = vars /\ heap'.live = heap.live)]_state

\* C1 holds where it is stated for the strict and the mode-selecting cases: the
\* host evaluated 2 * (1/0) and got null.
C1_StrictWitness ==
    /\ pc = "evaluated"
    /\ text = <<"2", " ", "*", " ", "(", "1", "/", "0", ")">>
    /\ res.k = "null"

\* C2: parsing and evaluating s="4",s=s+"5" yields a string result whose value
\* is "45".
C2_ConcatAssign ==
    (pc = "evaluated" /\ text = <<"s", "=", "\"", "4", "\"", ",", "s", "=", "s", "+", "\"", "5", "\"">>)
        => (res.k = "str" /\ res.sval = <<"4", "5">>)

\* The blocks are balanced: as many released as allocated, none left, none
\* released twice.
Balanced == heap.nfree = heap.nalloc /\ heap.live = {} /\ ~heap.bad

\* C3: for an expression that parsed and evaluated successfully, after
\* expr_result_free and expr_destroy the number of blocks released equals the
\* number allocated: nothing leaks and nothing is freed twice.
C3_Balanced == (pc = "destroyed" /\ nevals >= 1 /\ res.k \in {"num", "str"}) => Balanced

\* C3 holds for calls: f(1)+g(2) was evaluated, released and destroyed, and the
\* heap is balanced.
C3_CallWitness ==
    /\ pc = "destroyed"
    /\ nevals >= 1
    /\ text = <<"f", "(", "1", ")", "+", "g", "(", "2", ")">>
    /\ res.k = "num"
    /\ Balanced

\* The left operand of the root, evaluated alone from the current state.
LeftAlone(ub) ==
    expr_eval(ast.e.args.items[1], [vars |-> vars, h |-> heap, ev |-> <<>>], funcs, ub)

\* The left operand of a root && evaluates to 0, or that of a root || to a
\* non-zero number.
Decided(l) ==
    /\ l.r.k = "num"
    /\ IF ast.e.type = "LOGICAL_AND" THEN l.r.nval = Num(0)
       ELSE l.r.nval # Num(0) /\ IsFinite(l.r.nval)

\* C6: evaluating L && R when L evaluates to 0, or L || R when L evaluates to a
\* non-zero number, never evaluates R: the callbacks invoked and the slots
\* written are those of L alone.
C6_ShortCircuit ==
    [][(EvalStep /\ ast.e.type \in {"LOGICAL_AND", "LOGICAL_OR"})
        => \A ub \in UB :
             Decided(LeftAlone(ub))
                 => (pc' = "evaluated" /\ ev' = LeftAlone(ub).m.ev /\ vars' = LeftAlone(ub).m.vars)]_state

\* C6 at work: 0 && g(x=3) was evaluated to 0, no callback ran and x is unwritten.
C6_Witness ==
    /\ pc = "evaluated"
    /\ text = <<"0", " ", "&", "&", " ", "g", "(", "x", "=", "3", ")">>
    /\ res.k = "num" /\ res.nval = Num(0)
    /\ ev = <<>>
    /\ \A i \in 1..Len(vars) : vars[i].nval = Num(0)

\* The precedence level of a binary kind in the table of section 4.D of the
\* specification (lower binds tighter).
TableLevel(t) ==
    IF t = "POWER" THEN 1
    ELSE IF t \in {"MULTIPLY", "DIVIDE", "REMAINDER"} THEN 2
    ELSE IF t \in {"PLUS", "MINUS"} THEN 3
    ELSE IF t \in {"SHL", "SHR"} THEN 4
    ELSE IF t \in CmpTypes THEN 5
    ELSE IF t = "BITWISE_AND" THEN 6
    ELSE IF t = "BITWISE_OR" THEN 7
    ELSE IF t = "BITWISE_XOR" THEN 8
    ELSE IF t = "LOGICAL_AND" THEN 9
    ELSE IF t = "LOGICAL_OR" THEN 10
    ELSE IF t = "ASSIGN" THEN 11
    ELSE 12

\* The trees (x a y) b z and x a (y b z), as shapes.
GroupLeft(a, b) ==
    <<OPS[b].op, <<OPS[a].op, <<"var", <<"x">>>>, <<"var", <<"y">>>>>>, <<"var", <<"z">>>>>>

GroupRight(a, b) ==
    <<OPS[a].op, <<"var", <<"x">>>>, <<OPS[b].op, <<"var", <<"y">>>>, <<"var", <<"z">>>>>>>>

\* The parse of the host's text s, repeated from scratch.
Reparse(s) == expr_create(s, <<>>, funcs, EmptyHeap, [crash |-> TRUE, g |-> NaN])

\* C4: for two binary operators of different levels of the table, x a y b z is
\* grouped around the tighter one whichever comes first: it parses as the text
\* with that group in parentheses does (to the same tree, or to null where
\* the group becomes the target of an assignment), and explicit parentheses
\* decide the grouping of every pair.
C4_Precedence ==
    \A a \in BinOps, b \in BinOps :
        /\ (pc \in {"created", "failed"} /\ text = Chain(a, b, "plain")
               /\ TableLevel(OPS[a].op) # TableLevel(OPS[b].op))
           => LET tight == TableLevel(OPS[a].op) < TableLevel(OPS[b].op)
                  ref == Reparse(Chain(a, b, IF tight THEN "left" ELSE "right"))
              IN  /\ (pc = "created") = (ref.status = "ok")
                  /\ pc = "failed" => (tight /\ OPS[b].op = "ASSIGN")
                  /\ pc = "created"
                     => /\ Shape(ast.e, vars) = Shape(ref.e, ref.vars)
                        /\ Shape(ast.e, vars) = IF tight THEN GroupLeft(a, b) ELSE GroupRight(a, b)
        /\ (pc = "created" /\ text = Chain(a, b, "left")) => Shape(ast.e, vars) = GroupLeft(a, b)
        /\ (pc = "created" /\ text = Chain(a, b, "right")) => Shape(ast.e, vars) = GroupRight(a, b)
        /\ (pc = "failed" /\ text = Chain(a, b, "left")) => OPS[b].op = "ASSIGN"
        /\ (pc \in {"created", "failed"} /\ text = Chain(a, b, "right")) => pc = "created"

\* C4 at work: x+y*z parsed to x + (y * z).
C4_Witness ==
    /\ pc = "created"
    /\ text = <<"x", "+", "y", "*", "z">>
    /\ Shape(ast.e, vars)
         = <<"PLUS", <<"var", <<"x">>>>, <<"MULTIPLY", <<"var", <<"y">>>>, <<"var", <<"z">>>>>>>>

\* The value of the variable named s in the table.
ValueOf(s) == vars[VarIndex(vars, s)].nval

\* C5: a chain of two binary operators of the same level of the table groups to
\* the left, except that =, ** and , group to the right; 10-2-3 is 5, 1/3*6/4*2
\* is ((((1/3)*6)/4)*2), 2**3**2 is 512 and a=b=3 leaves a and b equal to 3.
C5_Associativity ==
    /\ \A a \in BinOps, b \in BinOps :
        (pc \in {"created", "failed"} /\ text = Chain(a, b, "plain")
            /\ TableLevel(OPS[a].op) = TableLevel(OPS[b].op))
        => /\ pc = "created"
           /\ Shape(ast.e, vars) = IF OPS[a].op \in {"ASSIGN", "POWER", "COMMA"}
                                   THEN GroupRight(a, b) ELSE GroupLeft(a, b)
    /\ (pc = "evaluated" /\ text = <<"1", "0", "-", "2", "-", "3">>) => (res.k = "num" /\ res.nval = Num(5))
    /\ (pc = "evaluated" /\ text = <<"1", "2", "/", "2", "/", "3">>) => (res.k = "num" /\ res.nval = Num(2))
    /\ (pc \in {"created", "failed"} /\ text = <<"1", "/", "3", "*", "6", "/", "4", "*", "2">>)
       => /\ pc = "created"
          /\ Shape(ast.e, vars) = Shape(Reparse(<<"(", "(", "(", "(", "1", "/", "3", ")", "*", "6", ")", "/", "4", ")", "*", "2", ")">>).e, <<>>)
    /\ (pc = "evaluated" /\ text = <<"1", "/", "3", "*", "6", "/", "4", "*", "2">>) => (res.k = "num" /\ res.nval = Num(1))
    /\ (pc = "evaluated" /\ text = <<"2", "*", "*", "3", "*", "*", "2">>) => (res.k = "num" /\ res.nval = Num(512))
    /\ (pc # "start" /\ text = <<"a", "=", "b", "=", "3">>) => pc # "failed"
    /\ (pc = "evaluated" /\ text = <<"a", "=", "b", "=", "3">>)
       => (ValueOf(<<"a">>) = Num(3) /\ ValueOf(<<"b">>) = Num(3))

\* C5 at work: a=b=3 parsed to a = (b = 3), was evaluated, and a and b are 3.
C5_Witness ==
    /\ pc = "evaluated"
    /\ text = <<"a", "=", "b", "=", "3">>
    /\ Shape(ast.e, vars)
         = <<"ASSIGN", <<"var", <<"a">>>>, <<"ASSIGN", <<"var", <<"b">>>>, <<"num", Num(3)>>>>>>
    /\ ValueOf(<<"a">>) = Num(3) /\ ValueOf(<<"b">>) = Num(3)

(***************************************************************************)
(* Operand modes: the host parses and evaluates l op r for + and the six   *)
(* comparisons over number and string literals.                            *)
(***************************************************************************)
ModeOps == {i \in BinOps : OPS[i].op \in {"PLUS"} \cup CmpTypes}

Literals ==
    { <<"1">>, <<"2">>, <<"4">>, <<"1", "2">>, <<"1", ".", "5">>
    , <<"\"", "1", "\"">>, <<"\"", "2", "\"">>, <<"\"", "3", "\"">>, <<"\"", "1", "2", "\"">>, <<"\"", "a", "b", "c", "\"">>, <<"\"", "\"">>
    }

ModeTexts == {l \o OPS[o].s \o r : o \in ModeOps, l \in Literals, r \in Literals}

ModeExamples ==
    { <<"1", "+", "\"", "2", "\"">>
    , <<"\"", "3", "\"", "+", "4">>
    , <<"\"", "1", "\"", "+", "\"", "2", "\"">>
    , <<"\"", "1", "2", "\"", " ", "=", "=", " ", "\"", "1", "\"", " ", "+", " ", "2">>
    }

CreateMode == \E s \in ModeTexts \cup ModeExamples : CreateOf(s, HostFuncs)

ModeNext == CreateMode \/ Eval \/ ResultFree \/ Destroy

SpecMode == Init /\ [][ModeNext]_state

\* The root is + or a comparison over two literals.
LiteralPair ==
    /\ ast.e.type \in {"PLUS"} \cup CmpTypes
    /\ \A i \in 1..2 : ast.e.args.items[i].type \in {"CONSTNUM", "CONSTSTZ"}

\* C7: for + and the six comparisons the type of the left operand alone selects
\* the mode.  With a string on the left a number on the right is formatted with
\* %g and the operation is concatenation or byte-wise comparison; with a number
\* on the left a string on the right is parsed as a number and the operation is
\* numeric.  1+"2" is 3, "3"+4 is "34", "1"+"2" is "12", "12" == "1" + 2 is 1,
\* and every comparison gives 1 or 0.
C7_LeftOperandMode ==
    /\ (pc # "start" /\ text \in ModeTexts \cup ModeExamples) => pc \notin {"failed", "crashed"}
    /\ (pc = "evaluated" /\ LiteralPair)
       => LET l == ast.e.args.items[1]
              r == ast.e.args.items[2]
              rs == IF r.type = "CONSTSTZ" THEN r.sval ELSE FmtG(r.nval)
              rn == IF r.type = "CONSTNUM" THEN r.nval ELSE atof(r.sval)
          IN  IF l.type = "CONSTSTZ"
              THEN IF ast.e.type = "PLUS"
                   THEN res.k = "str" /\ res.sval = l.sval \o rs
                   ELSE res.k = "num"
                        /\ res.nval = IF CmpStr(ast.e.type, l.sval, rs) THEN Num(1) ELSE Num(0)
              ELSE /\ res.k = "num"
                   /\ res.nval = IF ast.e.type = "PLUS" THEN FAdd(l.nval, rn)
                                 ELSE CmpNum(ast.e.type, l.nval, rn)
    /\ (pc = "evaluated" /\ ast.e.type \in CmpTypes)
       => (res.k = "num" /\ res.nval \in {Num(0), Num(1)})
    /\ (pc = "evaluated" /\ text = <<"1", "+", "\"", "2", "\"">>) => (res.k = "num" /\ res.nval = Num(3))
    /\ (pc = "evaluated" /\ text = <<"\"", "3", "\"", "+", "4">>) => (res.k = "str" /\ res.sval = <<"3", "4">>)
    /\ (pc = "evaluated" /\ text = <<"\"", "1", "\"", "+", "\"", "2", "\"">>) => (res.k = "str" /\ res.sval = <<"1", "2">>)
    /\ (pc = "evaluated" /\ text = <<"\"", "1", "2", "\"", " ", "=", "=", " ", "\"", "1", "\"", " ", "+", " ", "2">>) => (res.k = "num" /\ res.nval = Num(1))

\* C7 at work: "12" == "1" + 2 was evaluated to the number 1.
C7_Witness ==
    /\ pc = "evaluated"
    /\ text = <<"\"", "1", "2", "\"", " ", "=", "=", " ", "\"", "1", "\"", " ", "+", " ", "2">>
    /\ res.k = "num" /\ res.nval = Num(1)

\* The variable named $i
DollarVar(i) == <<"$">> \o DigitsOf(i)

\* The comma chain $i = i, ..., $k = k, $k as a shape.
RECURSIVE ArgShape(_, _)
ArgShape(i, k) ==
    IF i > k THEN <<"var", DollarVar(k)>>
    ELSE <<"COMMA", <<"ASSIGN", <<"var", DollarVar(i)>>, <<"num", Num(i)>>>>, ArgShape(i + 1, k)>>

\* C8: a call of a macro with k arguments a_1..a_k expands into the comma chain
\* $1 = a_1, ..., $k = a_k, body, with a_i assigned to the variable named
\* exactly $i for every i in 1..k (k >= 10 included), and evaluates to the value
\* of the last body expression; $(SQR, $1*$1), SQR(5) evaluates to 25.
C8_MacroArgs ==
    /\ \A k \in 1..MaxArgs :
        /\ (pc # "start" /\ text = MacroCall(k)) => pc \notin {"failed", "crashed"}
        /\ (pc = "created" /\ text = MacroCall(k))
           => Shape(ast.e, vars) = <<"COMMA", <<"num", Num(0)>>, ArgShape(1, k)>>
        /\ (pc = "evaluated" /\ text = MacroCall(k))
           => /\ res.k = "num" /\ res.nval = Num(k)
              /\ \A i \in 1..k :
                    VarIndex(vars, DollarVar(i)) # 0 /\ ValueOf(DollarVar(i)) = Num(i)
    /\ (pc = "evaluated" /\ text = <<"$", "(", "S", "Q", "R", ",", " ", "$", "1", "*", "$", "1", ")", ",", " ", "S", "Q", "R", "(", "5", ")">>)
       => (res.k = "num" /\ res.nval = Num(25))

\* C8 holds below ten arguments: $(M,$9),M(1,...,9) was evaluated to 9 with
\* $1..$9 holding 1..9, and $(SQR, $1*$1), SQR(5) was evaluated to 25.
C8_NineWitness ==
    /\ pc = "evaluated"
    /\ text = MacroCall(9)
    /\ res.k = "num" /\ res.nval = Num(9)
    /\ \A i \in 1..9 : ValueOf(DollarVar(i)) = Num(i)

\* The identifier the text starts with (empty when it starts with none).
LeadWord(s) == IF s # <<>> /\ isfirstvarchr(s[1]) THEN SubSeq(s, 1, ScanWord(s, 0)) ELSE <<>>

\* The text starts with an identifier that is not $ and not a name of the
\* registry (no macro is defined before it), immediately followed by (.
CallsUnknown ==
    LET w == LeadWord(text)
    IN  /\ w # <<>>
        /\ w # <<"$">>
        /\ CharAt(text, Len(w)) = "("
        /\ (funcs.null \/ expr_func(funcs, w) = 0)

\* C9: expr_create returns null for a text in which an identifier that is
\* neither $, nor a macro, nor a name of the registry is immediately followed
\* by (, for every registry, the null registry included.
C9_UnknownCall == (pc # "start" /\ CallsUnknown) => pc = "failed"

\* C9 holds with a registry: h(1) against the host's registry gave null.
C9_RegistryWitness ==
    /\ pc = "failed"
    /\ text = <<"h", "(", "1", ")">>
    /\ ~funcs.null

\* Whether the text ends inside a string literal: q is the quote that opened the
\* literal position i is in, or "" outside of one.
RECURSIVE OpenQuote(_, _, _)
OpenQuote(s, i, q) ==
    IF i > Len(s) THEN q # ""
    ELSE IF q = "" THEN OpenQuote(s, i + 1, IF s[i] \in {"\"", "'"} THEN s[i] ELSE "")
    ELSE OpenQuote(s, i + 1, IF s[i] = q THEN "" ELSE q)

\* C10: expr_create returns null for a text with a string literal whose opening
\* quote has no matching closing quote, and the tokenizer never reports a
\* token longer than the text that is left.
C10_Unterminated ==
    /\ (pc # "start" /\ OpenQuote(text, 1, "")) => pc = "failed"
    /\ pc # "start" => ast.maxtok <= 0

\* C10 holds for a lone quote: the text " gave null and no token overran it.
C10_LoneQuoteWitness ==
    /\ pc = "failed"
    /\ text = <<"\"">>
    /\ ast.maxtok <= 0

\* The result of evaluating the right side of the root, from the current state.
RhsResult(ub) ==
    expr_eval(ast.e.args.items[2], [vars |-> vars, h |-> heap, ev |-> <<>>], funcs, ub).r

\* The root is v = R and the evaluation of R does not depend on an undefined read.
AssignsDefined ==
    /\ ast.e.type = "ASSIGN"
    /\ ast.e.args.items[1].type = "VAR"
    /\ \A u1, u2 \in UB : RhsResult(u1) = RhsResult(u2)

\* The number v = R has to store and to yield when R evaluated to r.
Coerced(r) == IF r.k = "str" THEN atof(r.sval) ELSE r.nval

\* C14: evaluating v = R, where R evaluates to a string or to a number, stores
\* in the slot of v the numeric coercion of the string (the number itself for a
\* number) and yields that same number as a ConstNum.
C14_AssignCoerces ==
    [][(EvalStep /\ AssignsDefined)
        => \A ub \in UB :
              RhsResult(ub).k \in {"str", "num"}
                  => /\ pc' = "evaluated"
                     /\ res'.k = "num"
                     /\ res'.nval = Coerced(RhsResult(ub))
                     /\ VarValue(vars', ast.e.args.items[1].vref) = Coerced(RhsResult(ub))]_state

\* C14 holds for a number: a=b=3 was evaluated, a holds 3 and the result is 3.
C14_NumberWitness ==
    /\ pc = "evaluated"
    /\ text = <<"a", "=", "b", "=", "3">>
    /\ res.k = "num" /\ res.nval = Num(3)
    /\ VarValue(vars, ast.e.args.items[1].vref) = Num(3)

\* The tokens expr_create sees in the text s, in order, without the blank ones
\* (the runs of spaces and tabs); flags are those of the tokenizer before s.
\* Where the tokenizer fails, the rest of the text stands as the last token.
RECURSIVE Lex(_, _)
Lex(s, flags) ==
    LET tk == expr_next_token(s, flags)
    IN  IF tk.n = 0 THEN <<>>
        ELSE IF tk.n < 0 \/ tk.n > Len(s) THEN <<s>>
        ELSE (IF isspace(s[1]) /\ s[1] # NL THEN <<>> ELSE <<SubSeq(s, 1, tk.n)>>)
             \o Lex(SubSeq(s, tk.n + 1, Len(s)), tk.flags)

\* The texts of the string literals of s.
LiteralTexts(s) ==
    {SubSeq(Lex(s, EXPR_TDEFAULT)[i], 2, Len(Lex(s, EXPR_TDEFAULT)[i]) - 1) :
        i \in {j \in 1..Len(Lex(s, EXPR_TDEFAULT)) : Lex(s, EXPR_TDEFAULT)[j][1] \in {"\"", "'"}}}

\* The ConstStr nodes of the tree e.
RECURSIVE StrNodes(_)
StrNodes(e) ==
    IF e.type = "CONSTSTZ" THEN {e}
    ELSE UNION {StrNodes(e.args.items[i]) : i \in 1..vec_len(e.args)}

\* C19: in every tree expr_create returned, every ConstStr node has a string
\* buffer that is not null and holds the text of a literal, the nodes that a
\* macro expansion copied from the macro body included.
C19_StringBuffers ==
    ast.rid # 0 => \A n \in StrNodes(ast.e) : n.sid # 0 /\ n.sval \in LiteralTexts(text)

\* C19 holds for literals outside of macros: "abc" == "abc" was parsed into two
\* ConstStr nodes, each with its own buffer holding abc.
C19_PlainWitness ==
    /\ pc = "created"
    /\ text = <<"\"", "a", "b", "c", "\"", " ", "=", "=", " ", "\"", "a", "b", "c", "\"">>
    /\ {[sval |-> n.sval, null |-> n.sid = 0] : n \in StrNodes(ast.e)}
           = {[sval |-> <<"a", "b", "c">>, null |-> FALSE]}
    /\ Cardinality(StrNodes(ast.e)) = 2

RECURSIVE Joined(_)
Joined(toks) == IF toks = <<>> THEN <<>> ELSE Head(toks) \o Joined(Tail(toks))

\* The text s without its blank tokens.
Squeezed(s) == Joined(Lex(s, EXPR_TDEFAULT))

\* The text differs from a text that parses only by runs of spaces and tabs
\* standing between adjacent tokens of that text.
BlanksInserted ==
    /\ pc \in {"created", "failed", "crashed"}
    /\ Squeezed(text) # text
    /\ Lex(Squeezed(text), EXPR_TDEFAULT) = Lex(text, EXPR_TDEFAULT)
    /\ Reparse(Squeezed(text)).status = "ok"

\* C18: blanks are insignificant: a text made by inserting spaces and tabs
\* between adjacent tokens of a text that parses is parsed to the same tree,
\* also where the blank follows a unary operator (- 3 against -3).
C18_BlanksInsignificant ==
    BlanksInserted
        => /\ pc = "created"
           /\ Shape(ast.e, vars) = Shape(Reparse(Squeezed(text)).e, Reparse(Squeezed(text)).vars)

\* C18 holds where the blanks surround a binary operator: 1 +<TAB>2 was parsed
\* to the tree of 1+2.
C18_BinaryWitness ==
    /\ BlanksInserted
    /\ text = <<"1", " ", "+", TAB, "2">>
    /\ pc = "created"
    /\ Shape(ast.e, vars) = <<"PLUS", <<"num", Num(1)>>, <<"num", Num(2)>>>>

\* The blocks of the slots of the variable table.
SlotBlocks == {vars[i].id : i \in 1..Len(vars)}

\* C12: when expr_create returns null, every block it allocated is released
\* again, each once (operands, argument lists, macro bodies, the stacks); only
\* the slots of the variables it created remain.
C12_FailureReleases == pc = "failed" => (heap.live = SlotBlocks /\ ~heap.bad)

\* C12 holds for an unbalanced text: x=1+2) failed after x, 1, 2 and the sum
\* were built, and only the slot of x is left.
C12_ParenWitness ==
    /\ pc = "failed"
    /\ text = <<"x", "=", "1", "+", "2", ")">>
    /\ heap.nalloc > 1
    /\ heap.live = SlotBlocks
    /\ Len(vars) = 1
    /\ ~heap.bad

\* The Func nodes of the tree e, one entry for each node.
RECURSIVE FuncNodes(_)
RECURSIVE FuncNodesEach(_)
FuncNodesEach(items) ==
    IF items = <<>> THEN <<>> ELSE FuncNodes(Head(items)) \o FuncNodesEach(Tail(items))

FuncNodes(e) ==
    IF e.type \in {"CONSTNUM", "CONSTSTZ", "VAR"} THEN <<>>
    ELSE (IF e.type = "FUNC" THEN <<e>> ELSE <<>>) \o FuncNodesEach(e.args.items)

\* The blocks that the tree e owns.
RECURSIVE Blocks(_)
Blocks(e) ==
    IF e.type \in {"CONSTNUM", "VAR"} THEN {}
    ELSE IF e.type = "CONSTSTZ" THEN {e.sid} \ {0}
    ELSE (UNION {Blocks(e.args.items[i]) : i \in 1..vec_len(e.args)})
         \cup ({e.args.buf} \ {0})
         \cup (IF e.type = "FUNC" THEN {e.ctx} \ {0} ELSE {})

\* A step of the host that is a call of expr_destroy.
DestroyStep == pc \in {"created", "freed"} /\ pc' = "destroyed"

\* The calls of free and of cleanup callbacks that the step made, in order.
StepLog == SubSeq(heap'.tr, Len(heap.tr) + 1, Len(heap'.tr))

\* The cleanup callback of entry f ran once for each of the nodes ns, and for
\* a node with a context it ran after the blocks of the node's arguments were
\* released and before the context was.
CleanedOnce(log, ns, f) ==
    /\ Cardinality({i \in DOMAIN log : log[i].k = "cleanup" /\ log[i].f = f})
           = Cardinality({j \in DOMAIN ns : ns[j].f = f})
    /\ \A j \in DOMAIN ns :
        (ns[j].f = f /\ ns[j].ctx # 0)
            => \E i \in DOMAIN log :
                /\ log[i] = [k |-> "cleanup", f |-> f, id |-> ns[j].ctx]
                /\ \A a \in DOMAIN log :
                    log[a].k = "free"
                        => /\ log[a].id \in UNION {Blocks(ns[j].args.items[x]) :
                                                      x \in 1..vec_len(ns[j].args)} => a < i
                           /\ log[a].id = ns[j].ctx => a > i

\* C13: expr_destroy invokes the cleanup callback exactly once for every Func
\* node whose registry entry has one, whatever context size the entry
\* declares (0 included), after the node's argument subtrees are released and
\* before its context is freed.
C13_CleanupOnce ==
    [][DestroyStep
          => \A f \in 1..Len(funcs.tab) :
                 funcs.tab[f].cleanup => CleanedOnce(StepLog, FuncNodes(ast.e), f)]_state

\* C13 holds for an entry that declares a context: g(x=3) was destroyed, the
\* cleanup of g ran once, after the buffer of x=3 was freed and before the
\* context of g was.
C13_ContextWitness ==
    /\ pc = "destroyed"
    /\ text = <<"g", "(", "x", "=", "3", ")">>
    /\ ast.e.type = "FUNC"
    /\ ast.e.ctx # 0
    /\ Blocks(ast.e.args.items[1]) # {}
    /\ Cardinality({i \in DOMAIN heap.tr : heap.tr[i].k = "cleanup"}) = 1
    /\ CleanedOnce(heap.tr, FuncNodes(ast.e), ast.e.f)

\* How often the block id was released.
TimesFreed(id) == Cardinality({i \in DOMAIN heap.tr : heap.tr[i] = [k |-> "free", f |-> 0, id |-> id]})

\* C20: expr_destroy with a variable table releases every slot exactly once
\* and leaves the table empty: the list that expr_var and expr_create walk
\* afterwards reaches no released slot.
C20_TableEmptied ==
    pc = "destroyed"
        => /\ \A i \in 1..Len(vars) : TimesFreed(vars[i].id) = 1
           /\ \A i \in 1..Len(vars) : vars[i].id \in heap.live

\* C20 holds in its first half: after a=b=3 was destroyed the two slots were
\* released once each.
C20_FreedOnceWitness ==
    /\ pc = "destroyed"
    /\ text = <<"a", "=", "b", "=", "3">>
    /\ Len(vars) = 2
    /\ \A i \in 1..Len(vars) : TimesFreed(vars[i].id) = 1
    /\ ~heap.bad

(***************************************************************************)
(* Parentheses: the host parses every short sequence of parentheses,       *)
(* numbers, commas and names, plain or as the arguments of a function, of  *)
(* a macro or of $.                                                        *)
(***************************************************************************)
ParenTokens == {"(", ")", "1", ",", "f"}

\* The longest sequence of tokens after the head.
MaxParenLen == 4

\* What the sequence follows: nothing, the name of a function, the name of a
\* macro defined before it, or $.
ParenHeads == {<<>>, <<"f">>, <<"$", "(", "M", ",", "1", ")", ",", "M">>, <<"$">>}

ParenTexts ==
    {h \o w : h \in ParenHeads, w \in UNION {[1..n -> ParenTokens] : n \in 1..MaxParenLen}}

CreateParen == \E s \in ParenTexts : CreateOf(s, HostFuncs)

ParenNext == CreateParen \/ Eval \/ ResultFree \/ Destroy

SpecParen == Init /\ [][ParenNext]_state

\* The nesting depth after the tokens toks, from depth d; -1 once a closing
\* parenthesis had no partner.
RECURSIVE ParenDepth(_, _)
ParenDepth(toks, d) ==
    IF d < 0 \/ toks = <<>> THEN d
    ELSE ParenDepth(Tail(toks), IF Head(toks) = <<"(">> THEN d + 1
                                ELSE IF Head(toks) = <<")">> THEN d - 1 ELSE d)

\* The parentheses of the text s do not match.
Unbalanced(s) == ParenDepth(Lex(s, EXPR_TDEFAULT), 0) # 0

\* C11: expr_create returns null for every text whose parentheses do not
\* match, be they plain, those of a function call, of a macro call or of $,
\* at any depth.
C11_UnbalancedNull == (pc # "start" /\ Unbalanced(text)) => pc = "failed"

\* C11 holds for a call closed twice: f(1)) was rejected.
C11_ClosedTwiceWitness ==
    /\ pc = "failed"
    /\ text = <<"f", "(", "1", ")", ")">>
    /\ Unbalanced(text)
    /\ ast.rid = 0

(***************************************************************************)
(* Unary operators: the host parses and evaluates every unary operator     *)
(* before the left and before the right operand of every binary operator,  *)
(* and every pair of unary operators before one operand.                   *)
(***************************************************************************)
\* The entries of OPS that spell the unary operators as the text does.
UnOps == {i \in 1..Len(OPS) : expr_is_unary(OPS[i].op) /\ Len(OPS[i].s) = 1}

\* u x b y, and the same with the unary operator and its operand in parentheses.
UnaryLeft(u, b, paren) ==
    (IF paren THEN <<"(">> \o OPS[u].s \o <<"x", ")">> ELSE OPS[u].s \o <<"x">>)
        \o OPS[b].s \o <<"y">>

\* x b u y, and the same with the unary operator and its operand in parentheses.
UnaryRight(u, b, paren) ==
    <<"x">> \o OPS[b].s
        \o (IF paren THEN <<"(">> \o OPS[u].s \o <<"y", ")">> ELSE OPS[u].s \o <<"y">>)

\* u v x, and the same with the inner operator and its operand in parentheses.
UnaryPair(u, v, paren) ==
    OPS[u].s \o (IF paren THEN <<"(">> \o OPS[v].s \o <<"x", ")">> ELSE OPS[v].s \o <<"x">>)

UnaryTexts ==
    {UnaryLeft(u, b, FALSE) : u \in UnOps, b \in BinOps}
        \cup {UnaryRight(u, b, FALSE) : u \in UnOps, b \in BinOps}
        \cup {UnaryPair(u, v, FALSE) : u \in UnOps, v \in UnOps}

UnaryExamples ==
    { <<"-", "2", "*", "*", "2">>         \* -2**2
    , <<"2", "*", "*", "-", "1">>         \* 2**-1
    , <<"-", "!", "0">>                   \* -!0
    , <<"!", "-", "3", "+", "1">>         \* !-3+1
    }

CreateUnary == \E s \in UnaryTexts \cup UnaryExamples : CreateOf(s, HostFuncs)

UnaryNext == CreateUnary \/ Eval \/ ResultFree \/ Destroy

SpecUnary == Init /\ [][UnaryNext]_state

\* The text was parsed as the text s is: both to null, or both to the same tree.
ParsedAs(s) ==
    /\ pc \in {"created", "failed"}
    /\ (pc = "created") = (Reparse(s).status = "ok")
    /\ (pc = "failed") = (Reparse(s).status = "null")
    /\ pc = "created" => Shape(ast.e, vars) = Shape(Reparse(s).e, Reparse(s).vars)

\* C17: the unary operators -, ! and ^ bind tighter than every binary
\* operator, ** included: -a**b is (-a)**b and a**-b is a**(-b), for every
\* unary and every binary operator, and a unary operator that is pending is
\* not bound when another unary operator follows it: u v x is u(v x).
C17_UnaryBindsTightest ==
    /\ \A u \in UnOps, b \in BinOps :
        /\ (pc \in {"created", "failed", "crashed"} /\ text = UnaryLeft(u, b, FALSE))
            => /\ ParsedAs(UnaryLeft(u, b, TRUE))
               /\ pc = "created"
                    => Shape(ast.e, vars)
                         = <<OPS[b].op, <<OPS[u].op, <<"var", <<"x">>>>>>, <<"var", <<"y">>>>>>
        /\ (pc \in {"created", "failed", "crashed"} /\ text = UnaryRight(u, b, FALSE))
            => /\ ParsedAs(UnaryRight(u, b, TRUE))
               /\ pc = "created"
               /\ Shape(ast.e, vars)
                    = <<OPS[b].op, <<"var", <<"x">>>>, <<OPS[u].op, <<"var", <<"y">>>>>>>>
    /\ \A u \in UnOps, v \in UnOps :
        (pc \in {"created", "failed", "crashed"} /\ text = UnaryPair(u, v, FALSE))
            => /\ ParsedAs(UnaryPair(u, v, TRUE))
               /\ pc = "created"
               /\ Shape(ast.e, vars) = <<OPS[u].op, <<OPS[v].op, <<"var", <<"x">>>>>>>>
    /\ (pc = "evaluated" /\ text = <<"-", "2", "*", "*", "2">>) => (res.k = "num" /\ res.nval = Num(4))
    /\ (pc = "evaluated" /\ text = <<"2", "*", "*", "-", "1">>) => (res.k = "num" /\ res.nval = Rat(1, 2))
    /\ (pc = "evaluated" /\ text = <<"-", "!", "0">>) => (res.k = "num" /\ res.nval = Num(0 - 1))

\* C17 for the power operator: -x**y was parsed to the power of -x and y.
C17_PowerWitness ==
    /\ pc = "created"
    /\ text = <<"-", "x", "*", "*", "y">>
    /\ Shape(ast.e, vars) = <<"POWER", <<"UNARY_MINUS", <<"var", <<"x">>>>>>, <<"var", <<"y">>>>>>
    /\ ParsedAs(<<"(", "-", "x", ")", "*", "*", "y">>)

(***************************************************************************)
(* A shared table: the host parses several texts, one after the other,     *)
(* against one variable table, evaluates each tree, destroys it with       *)
(* expr_destroy(e, NULL), and looks variables up with expr_var in between. *)
(***************************************************************************)
\* How many texts the host parses against the table.
MaxCreates == 2

\* $(M,$1+1),M(2): the definition of macro M and a call of it.
MacroDef == <<"$", "(", "M", ",", "$", "1", "+", "1", ")", ",", "M", "(", "2", ")">>

\* M(2): a call of M in a text that does not define it.
MacroUse == <<"M", "(", "2", ")">>

\* M and $1 are named by MacroDef only.
TableTexts ==
    { MacroDef
    , MacroUse
    , <<"x", "=", "x", "+", "1">>                      \* x=x+1
    , <<"0", "&", "&", "(", "y", "=", "5", ")">>       \* 0&&(y=5)
    , <<"x", "=", "(">>                                \* x=(
    }

\* The names the host looks up.
LookupNames == {<<"x">>}

CreateTable == ncreates < MaxCreates /\ \E s \in TableTexts : CreateOf(s, HostFuncs)

\* expr_var(&vars, name, len) by the host.
Lookup ==
    /\ pc \in {"start", "created", "freed"}
    /\ \E name \in LookupNames :
        /\ vars' = expr_var(vars, name, heap).vars
        /\ heap' = expr_var(vars, name, heap).h
    /\ UNCHANGED <<pc, text, funcs, ast, res, ev, nevals, ncreates>>

\* expr_destroy(e, NULL): the tree is released, the table is not; the host is
\* ready for the next text.
DestroyNull ==
    /\ pc \in {"created", "freed"}
    /\ pc' = "start"
    /\ heap' = expr_destroy(ast.e, ast.rid, <<>>, heap, funcs)
    /\ ast' = NoAst
    /\ res' = RNull
    /\ ev' = <<>>
    /\ nevals' = 0
    /\ UNCHANGED <<text, funcs, vars, ncreates>>

\* expr_create returned NULL: the host goes on to the next text.
GiveUp ==
    /\ pc = "failed"
    /\ pc' = "start"
    /\ UNCHANGED <<text, funcs, ast, vars, heap, res, ev, nevals, ncreates>>

TableNext == CreateTable \/ Lookup \/ Eval \/ ResultFree \/ DestroyNull \/ GiveUp

SpecTable == Init /\ [][TableNext]_state

\* A step of the host that is a call of expr_create.
CreateStep == pc = "start" /\ pc' \in {"created", "failed", "crashed"}

\* The table holds the slots of M and $1: an earlier expr_create on the table
\* defined the macro M and expanded a call of it.
MacroKnown(vs) == VarIndex(vs, <<"M">>) # 0 /\ VarIndex(vs, <<"$", "1">>) # 0

\* C15: a macro is visible only in the expr_create call whose text defines
\* it.  The text that defines and calls M parses and leaves the slots of M and
\* $1 in the table; in a later expr_create on the same table M(2) is a call of
\* an unknown function and the result is null; the slots of M and $1 stay in
\* the table through every step.
C15_MacroScoped ==
    [][/\ (CreateStep /\ text' = MacroDef) => (pc' = "created" /\ MacroKnown(vars'))
       /\ (CreateStep /\ text' = MacroUse /\ MacroKnown(vars))
            => (pc' = "failed" /\ ast'.rid = 0 /\ vars' = vars)
       /\ MacroKnown(vars) => MacroKnown(vars')]_state

\* C15 where it matters: M was defined and called by the first text, the tree
\* was destroyed, and the second text M(2) was rejected with M and $1 still in
\* the table.
C15_LaterCallWitness ==
    /\ pc = "failed"
    /\ ncreates = 2
    /\ text = MacroUse
    /\ MacroKnown(vars)

\* The Var nodes of the tree e.
RECURSIVE VarNodes(_)
VarNodes(e) ==
    IF e.type = "VAR" THEN {e}
    ELSE IF e.type \in {"CONSTNUM", "CONSTSTZ"} THEN {}
    ELSE UNION {VarNodes(e.args.items[i]) : i \in 1..vec_len(e.args)}

\* No two slots of the table vs have one name.
OneSlotPerName(vs) == \A i, j \in 1..Len(vs) : vs[i].name = vs[j].name => i = j

\* C16: through every expr_var, expr_create (successful or failed), expr_eval
\* and expr_destroy(e, NULL) on one table, the table holds at most one slot
\* for a name, a name that had a slot keeps that slot, no slot is removed or
\* released, a slot's value changes only in an expr_eval that executed an
\* assignment to it, and every Var node of the live tree references a slot of
\* the table that is not released.
C16_TableStable ==
    [][/\ OneSlotPerName(vars')
       /\ \A i \in 1..Len(vars) :
            /\ VarIndex(vars', vars[i].name) # 0
            /\ vars'[VarIndex(vars', vars[i].name)].id = vars[i].id
            /\ vars[i].id \in heap'.live
            /\ vars'[VarIndex(vars', vars[i].name)].nval # vars[i].nval
                 => /\ EvalStep
                    /\ \E w \in 1..Len(ev') : ev'[w].k = "write" /\ ev'[w].v = vars[i].id
       /\ \A i \in 1..Len(vars') :
            (\A j \in 1..Len(vars) : vars[j].id # vars'[i].id) => vars'[i].nval = Num(0)
       /\ pc' \in {"created", "evaluated", "freed"}
            => \A n \in VarNodes(ast'.e) :
                   /\ n.vref \in {vars'[i].id : i \in 1..Len(vars')}
                   /\ n.vref \in heap'.live]_state

\* C16 where it matters: the second text x=x+1 was parsed against the table
\* that the first left, found the slot of x with the value the first text
\* gave it, and its evaluation made it 2.
C16_SharedSlotWitness ==
    /\ pc = "evaluated"
    /\ ncreates = 2
    /\ text = <<"x", "=", "x", "+", "1">>
    /\ Len(vars) = 1
    /\ vars[1].nval = Num(2)
    /\ VarNodes(ast.e) = {expr_varref(vars[1].id)}

=============================================================================
